---------------------------- MODULE Spec2Model ----------------------------
(***************************************************************************)
(* Model of the travel-agency plan flow (controller/discord/plan.rs) and   *)
(* of the subtask executor (shared/structs/agent/mod.rs).                  *)
(*                                                                         *)
(* One plan flow is modelled: plan() classifies the language, calls the    *)
(* planner (orchestrate), edits the greeting, creates the thread, runs     *)
(* execute_plan (one worker per task, polling a shared Context map),       *)
(* synthesizes, persists and delivers.  Every call to an external          *)
(* collaborator (provider, chat surface, record store, maps) answers       *)
(* nondeterministically with one of the outcomes the code distinguishes.   *)
(***************************************************************************)
EXTENDS Integers, Sequences, FiniteSets, TLC

(***************************************************************************)
(* Bounds of the model.                                                    *)
(***************************************************************************)
\* number of entries of MODEL_NAME_MAP that are fanned out to (18 in the source)
NumProviders == 1
\* planner requests are counted up to this number (the counter saturates)
MaxPlannerCalls == 2

\* crate::shared::MAX_TOOL_RETRY_COUNT (imported by plan.rs and agent/mod.rs)
MAX_TOOL_RETRY_COUNT == 3

Providers == 1..NumProviders

Languages == {"English", "Japanese", "Chinese", "Other"}

\* Food stands for every agent handled by the `_` arm (Food, History, Modern, Nature)
Agents == {"Food", "Transport"}

(***************************************************************************)
(* Planner responses.  A Task is [task_id, agent, dependencies].           *)
(***************************************************************************)
Task(id, agent, deps) == [task_id |-> id, agent |-> agent, dependencies |-> deps]

\* the plans the planner's provider may answer with
PlannerPlans ==
    { <<>>,
      << Task("t1", "Food", {}) >>,
      << Task("t1", "Transport", {}) >>,
      << Task("t1", "Food", {}), Task("t2", "Food", {"t1"}) >>,
      << Task("t2", "Food", {"t1"}), Task("t1", "Food", {}) >>,
      << Task("t1", "Transport", {}), Task("t2", "Food", {"t1"}) >>,
      << Task("t1", "Food", {"t2"}), Task("t2", "Food", {"t1"}) >>,
      << Task("t1", "Food", {"t1"}) >>,
      << Task("t1", "Food", {}), Task("t1", "Food", {}) >>,
      << Task("t1", "Food", {}), Task("t2", "Food", {"t99"}) >>,
      << Task("t1", "Food", {"t99"}) >> }

\* what one planner request can come back with: a provider error, content that
\* does not parse as an OrchestrationPlan, a response without choices, or a
\* parsed plan
PlannerResponses ==
    { [kind |-> "error", tasks |-> <<>>], [kind |-> "unparsable", tasks |-> <<>>],
      [kind |-> "no_choice", tasks |-> <<>>] }
    \cup { [kind |-> "plan", tasks |-> p] : p \in PlannerPlans }

NoResponse == [kind |-> "none", tasks |-> <<>>]

\* all_task_ids of orchestrate
TaskIds(ts) == { ts[i].task_id : i \in 1..Len(ts) }

\* all_dependencies of orchestrate (sorted and deduplicated: a set)
AllDependencies(ts) == UNION { ts[i].dependencies : i \in 1..Len(ts) }

\* a validation that only looks at the first task
ValidPlan_FirstOnly(ts) ==
    Len(ts) > 0 => \A dep \in ts[1].dependencies : dep \in TaskIds(ts)

\* the validation of orchestrate: every dependency is the task_id of some task
ValidPlan(ts) == \A dep \in AllDependencies(ts) : dep \in TaskIds(ts)

\* every task id a planner response mentions (keys the Context map can be asked for)
IdUniverse == UNION { TaskIds(p) \cup AllDependencies(p) : p \in PlannerPlans }

\* indices a task can have in a planner response
TaskIndices == UNION { DOMAIN p : p \in PlannerPlans }

\* who can hold message_mutex: the plan task (-1) and the worker of each task
Holders == {-1} \cup TaskIndices

(***************************************************************************)
(* Provider answers.                                                       *)
(***************************************************************************)
\* how one fan-out provider call can end: a response whose text does not / does
\* begin with "Fail", a provider error, the per-call timeout
Outcomes == {"ok", "okFail", "err", "timeout"}

\* the string a fan-out call hands to join_all (agent/mod.rs 319-343), by its kind
ResultText(o) ==
    CASE o = "ok"      -> "text"
      [] o = "okFail"  -> "Fail text"
      [] o = "err"     -> "Failed to get response from model"
      [] o = "timeout" -> "model timed out when trying to complete a task"

\* s.starts_with("Fail") on the kinds of ResultText
StartsWithFail(s) == s \in {"Fail text", "Failed to get response from model"}

\* a ChatChoice, as far as the code looks at it
Choice(f, c, t) == [finish |-> f, content |-> c, tool |-> t]

NoChoice == Choice("unset", FALSE, FALSE)

\* a chat request that ends without a choice: a provider error (Err), or an
\* Ok response whose choices are empty
Failures == { Choice("err", FALSE, FALSE), Choice("no_choice", FALSE, FALSE) }

\* a chat request the provider never answers; create(request).await is not
\* wrapped in tokio::time::timeout outside the fan-out
Unanswered == Choice("never", FALSE, FALSE)

\* choices the agent-consolidation call can return; the tool is attached to the
\* request of a Transport task only, and the code reads finish_reason and
\* tool_calls of whatever the provider answered
AgentAnswers(agent) ==
    IF agent = "Transport"
    THEN { Choice("tool_calls", FALSE, TRUE), Choice("tool_calls", TRUE, TRUE),
           Choice("tool_calls", FALSE, FALSE),
           Choice("stop", TRUE, FALSE), Choice("stop", FALSE, FALSE) }
    ELSE { Choice("stop", TRUE, FALSE), Choice("stop", FALSE, FALSE),
           Choice("tool_calls", FALSE, TRUE) }

\* choices a follow-up call of the tool loop can return
FollowUpAnswers ==
    { Choice("stop", TRUE, FALSE), Choice("stop", FALSE, FALSE),
      Choice("tool_calls", FALSE, TRUE), Choice("tool_calls", FALSE, FALSE),
      Choice("none", TRUE, FALSE) }

\* content of a Context: which worker produced it, from which answer
Content(i, src) == [by |-> i, src |-> src]

NoCtx == Content(0, "none")

(***************************************************************************)
(* Prompts.  A user prompt is modelled by what stands at the places of its *)
(* placeholders: $CONTEXT, and the $RETRY_COUNT and $MAXIMUM_RETRY_REACHED *)
(* of the transport prompt that comes in with $AGENT.                      *)
(***************************************************************************)
\* the text at the place of $CONTEXT: the placeholder, the empty string, or the
\* pretty-printed object of the dependency contents
ContextText(text, object) == [text |-> text, object |-> object]

\* agent/mod.rs 252-256: the object when it has an entry, else ""
ContextString(c) ==
    IF DOMAIN c # {} THEN ContextText("json", c) ELSE ContextText("", c)

\* executor.user_prompt as create_executors builds it: $CONTEXT is open and the
\* transport prompt is not part of it before $AGENT is replaced
InitialPrompt ==
    [context |-> ContextText("$CONTEXT", <<>>), retry |-> "absent", max |-> "absent"]

\* executor.transport_agent of a Transport task, as configured
TransportTemplate == [retry |-> "$RETRY_COUNT", max |-> "$MAXIMUM_RETRY_REACHED"]

\* str::replace of one placeholder: it changes the text only where the
\* placeholder still stands
ReplaceContext(p, v) == IF p.context.text = "$CONTEXT" THEN [p EXCEPT !.context = v] ELSE p

ReplaceRetry(p, v) == IF p.retry = "$RETRY_COUNT" THEN [p EXCEPT !.retry = v] ELSE p

ReplaceMax(p, v) == IF p.max = "$MAXIMUM_RETRY_REACHED" THEN [p EXCEPT !.max = v] ELSE p

\* agent/mod.rs 358-365: transport_agent_prompt of the agent-consolidation call
TransportAgentPrompt(agent) ==
    IF agent = "Transport"
    THEN ReplaceMax(ReplaceRetry(TransportTemplate, ToString(MAX_TOOL_RETRY_COUNT)), "")
    ELSE [retry |-> "absent", max |-> "absent"]

\* agent/mod.rs 367-373: $AGENT becomes the agent prompt with the transport
\* prompt t in it
ReplaceAgent(p, t) == [p EXCEPT !.retry = t.retry, !.max = t.max]

\* plan.rs 540-549: the user prompt of iteration n of the tool loop
RetryUserPrompt(p, n) ==
    ReplaceMax(ReplaceRetry(p, ToString(n)),
               IF n = MAX_TOOL_RETRY_COUNT - 1 THEN "maximum_try_prompt" ELSE "")

\* the prompt of a follow-up request, with the iteration that built it
SentPrompt(n, p) == [iteration |-> n, prompt |-> p]

NoPrompt == SentPrompt(-1, InitialPrompt)

VARIABLES
    flow,           \* where plan() / execute_plan() stands
    language,       \* the Language determine_language returned, "none" before
    plannerCalls,   \* planner requests issued, saturating at MaxPlannerCalls
    lastResponse,   \* the response to the latest planner request
    orchResult,     \* "none" while orchestrate runs, then "ok" or "err"
    tasks,          \* orchestration.tasks as plan() uses it
    greeting,       \* content of the edit of the deferred response
    title,          \* the thread title name_thread returned, "none" before
    thread,         \* TRUE once the discussion thread exists
    execResult,     \* how execute_plan ended: "running", "empty", "ok", "err", "panic"
    launched,       \* executors spawned so far by the launch loop
    mutex,          \* holder of message_mutex: 0 free, i worker i, -1 the plan task
    embed,          \* description lines of the progress embed held in the mutex
    original_desc,  \* per holder of the mutex: the description it read after locking
    wpc,            \* per task: where its worker stands
    prov,           \* per task and provider: outcome of the fan-out call
    dumps,          \* per task and provider: GenerationDumps pushed for it
    survivors,      \* per task: providers whose result passed the "Fail" filter
    context,        \* per task: the dependency contents substituted for $CONTEXT
    choice,         \* per task: the ChatChoice of the agent-consolidation call
    retry_count,    \* per task: retry_count of the tool loop
    toolCalls,      \* per task: follow-up provider calls made by the tool loop
    user_prompt,    \* per task: executor.user_prompt, by its placeholders
    retry_prompt,   \* per task: the user_prompt built by the latest tool iteration
    tool_failures,  \* per task: iterations whose handle_tool_call failed
    last_message,   \* per task: the latest response to a follow-up call
    contexts,       \* the shared Context map: task id -> content, NoCtx when absent
    writes,         \* per key: number of inserts into the Context map so far
    results,        \* tasks whose Context execute_plan returned
    recordDumps,    \* per task: dumps execute_plan appended to plan_record.dumps
    synthCalls,     \* synthesis requests issued
    stored,         \* TRUE once the PlanRecord is written
    mapped,         \* TRUE once the PlanMapping is written
    delivered,      \* TRUE once the final result was sent to the thread
    triage,         \* how the classifier call of determine_language ended
    synthesis,      \* how the request of synthesize ended, "none" before
    inserts,        \* per collection: inserts insert_record attempted
    plans,          \* document ids of the PlanRecords in the plans collection
    mappings        \* the PlanMappings in the plan mapping collection, by document id

\* send_final_result_message, called on its own
VARIABLES
    cpc,             \* where the call stands: "parked", "call", "loop", "send", "ok", "err"
    width,           \* bytes each code point of the argument takes in UTF-8
    length,          \* code points of the argument
    final_result,    \* the local final_result: the code points of the argument it holds
    character_count, \* the local character_count
    messages,        \* container, then messages
    posted           \* the messages the thread received, in order

chunkVars == <<cpc, width, length, final_result, character_count, messages, posted>>

\* handle_interaction and the tasks it spawns
VARIABLES
    requests,        \* the bodies handle_interaction was called with, in order
    responses,       \* the Response returned for each of them
    pipelines,       \* the spawned tasks: request, command name, where each stands
    registry         \* holder of the COMMAND_REGISTRY lock: 0 free, else a pipeline

handlerVars == <<requests, responses, pipelines, registry>>

\* handle_tool_call, called by the tool loop of one Transport task
VARIABLES
    mpc,             \* where the tool loop stands: "idle", "running", "returned"
    calls,           \* handle_tool_call invocations of this plan so far
    transfer_plan,   \* the routes decoded from the arguments of this call
    lat_lngs,        \* keys of the DashMap of this call
    geocoded,        \* per place name: geocoding requests sent in this plan
    answered,        \* place names a geocoding request of this plan was answered for
    located,         \* routes of this call whose coordinates are known
    directions,      \* per route: how its two directions requests ended
    route_results,   \* the RouteWithDurations pushed so far
    tool_result      \* "none", "ok", or the error handle_tool_call returned

mapsVars == <<mpc, calls, transfer_plan, lat_lngs, geocoded, answered, located, directions,
              route_results, tool_result>>

\* validate_interaction, the middleware in front of handle_interaction
VARIABLES
    served           \* the requests the middleware was called with, and how each ended

\* the user prompt of one Executor, from create_executors to the agent call
VARIABLES
    prompted         \* the texts an Executor was given, and the prompt built of them

unitVars == <<chunkVars, handlerVars, mapsVars, served, prompted>>

planVars == <<flow, triage, language, plannerCalls, lastResponse, orchResult, tasks, greeting, title, thread>>

execVars == <<execResult, launched, results, recordDumps>>

workerVars == <<wpc, prov, dumps, survivors, context, choice, retry_count, toolCalls,
                user_prompt, retry_prompt, tool_failures, last_message>>

sharedVars == <<mutex, embed, original_desc, contexts, writes>>

postVars == <<synthCalls, stored, mapped, delivered, synthesis, inserts, plans, mappings>>

vars == <<planVars, execVars, workerVars, sharedVars, postVars, unitVars>>

Workers == DOMAIN wpc

\* keys of the Context map
ContextKeys == { k \in IdUniverse : contexts[k] # NoCtx }

Line(kind, i) == [kind |-> kind, task |-> i]

\* a String, by the code points of the argument it holds: lo..hi, none when hi < lo
Str(lo, hi) == [lo |-> lo, hi |-> hi]

\* send_final_result_message is not being called
ChunkParked ==
    /\ cpc = "parked"
    /\ width = 1
    /\ length = 0
    /\ final_result = Str(1, 0)
    /\ character_count = 0
    /\ messages = <<>>
    /\ posted = <<>>

\* the server before its first request
HandlerInit ==
    /\ requests = <<>>
    /\ responses = <<>>
    /\ pipelines = <<>>
    /\ registry = 0

\* place names the Transport agent asks about
Places == {"A", "B"}

\* the tool loop before its first handle_tool_call
MapsInit ==
    /\ mpc = "idle"
    /\ calls = 0
    /\ transfer_plan = <<>>
    /\ lat_lngs = {}
    /\ geocoded = [n \in Places |-> 0]
    /\ answered = {}
    /\ located = 0
    /\ directions = <<>>
    /\ route_results = <<>>
    /\ tool_result = "none"

\* the plan task of one command interaction before its first step
PlanInit ==
    /\ flow = "language"
    /\ language = "none"
    /\ plannerCalls = 0
    /\ lastResponse = NoResponse
    /\ orchResult = "none"
    /\ tasks = <<>>
    /\ greeting = "none"
    /\ title = "none"
    /\ thread = FALSE
    /\ execResult = "running"
    /\ launched = 0
    /\ mutex = 0
    /\ embed = <<>>
    /\ original_desc = [h \in Holders |-> <<>>]
    /\ wpc = <<>>
    /\ prov = <<>>
    /\ dumps = <<>>
    /\ survivors = <<>>
    /\ context = <<>>
    /\ choice = <<>>
    /\ retry_count = <<>>
    /\ toolCalls = <<>>
    /\ user_prompt = <<>>
    /\ retry_prompt = <<>>
    /\ tool_failures = <<>>
    /\ last_message = <<>>
    /\ contexts = [k \in IdUniverse |-> NoCtx]
    /\ writes = [k \in IdUniverse |-> 0]
    /\ results = {}
    /\ recordDumps = <<>>
    /\ synthCalls = 0
    /\ stored = FALSE
    /\ mapped = FALSE
    /\ delivered = FALSE
    /\ triage = "none"
    /\ synthesis = "none"
    /\ inserts = [plan |-> 0, mapping |-> 0]
    /\ plans = {}
    /\ mappings = {}

Init == PlanInit /\ ChunkParked /\ HandlerInit /\ MapsInit /\ served = <<>> /\ prompted = <<>>

(***************************************************************************)
(* plan(): language, planner, greeting, thread                             *)
(***************************************************************************)
\* how the classifier call can end: a response whose tool call decodes to a
\* Language, an error of the request (a timeout the client reports included),
\* a response without a decodable tool call
TriageOutcomes == Languages \cup {"provider_error", "undecodable"}

\* plan.rs 172-199: the Language determine_language returns for outcome r
TriageLanguage(r) ==
    IF r \in Languages THEN r
    ELSE IF r = "provider_error" THEN "English" ELSE "none"

\* a classifier whose request error is returned to plan()
AfterTriage_ErrorAborts(r) == IF r \in Languages THEN "orchestrate" ELSE "err"

\* a classifier whose decoding error is not returned to plan() either
AfterTriage_NeverAborts(r) == "orchestrate"

\* plan.rs 61 with 172-199: only the decoding error is returned with ?
AfterTriage(r) == IF r = "undecodable" THEN "err" ELSE "orchestrate"

\* determine_language: a provider failure falls back to English; a response
\* without a decodable tool call makes plan() return the error
DetermineLanguage ==
    /\ flow = "language"
    /\ \E r \in TriageOutcomes :
          /\ triage' = r
          /\ language' = TriageLanguage(r)
          /\ flow' = AfterTriage(r)
    /\ UNCHANGED <<plannerCalls, lastResponse, orchResult, tasks, greeting, title, thread>>
    /\ UNCHANGED <<execVars, workerVars, sharedVars, postVars>>
    /\ UNCHANGED unitVars

\* one iteration of the loop of orchestrate: one request, one response
Orchestrate ==
    /\ flow = "orchestrate"
    /\ \E r \in PlannerResponses :
          /\ lastResponse' = r
          /\ plannerCalls' = IF plannerCalls < MaxPlannerCalls
                             THEN plannerCalls + 1 ELSE plannerCalls
          /\ CASE r.kind = "plan" ->
                    IF ValidPlan(r.tasks)
                    THEN orchResult' = "ok" /\ tasks' = r.tasks /\ flow' = "greeting"
                    ELSE UNCHANGED <<orchResult, tasks, flow>>
               [] r.kind = "no_choice" ->
                    \* res.choices[0] panics in the plan task
                    flow' = "panic" /\ UNCHANGED <<orchResult, tasks>>
               [] OTHER ->
                    \* provider error, or the `?` on serde_json::from_str:
                    \* plan() goes on with OrchestrationPlan::default()
                    orchResult' = "err" /\ tasks' = <<>> /\ flow' = "greeting"
    /\ UNCHANGED <<triage, language, greeting, title, thread>>
    /\ UNCHANGED <<execVars, workerVars, sharedVars, postVars>>
    /\ UNCHANGED unitVars

\* a greeting that does not look at the planner's result
GreetingText_Always(res) == "greeting_message"

\* plan.rs 65-68: the greeting message, or the Debug text of the planner error
GreetingText(res) == IF res = "ok" THEN "greeting_message" ELSE "diagnostic"

\* send_greeting: edit_original_interaction_response with that text
SendGreeting ==
    /\ flow = "greeting"
    /\ greeting' = GreetingText(orchResult)
    /\ \E ok \in BOOLEAN : flow' = IF ok THEN "name_thread" ELSE "err"
    /\ UNCHANGED <<triage, language, plannerCalls, lastResponse, orchResult, tasks, title, thread>>
    /\ UNCHANGED <<execVars, workerVars, sharedVars, postVars>>
    /\ UNCHANGED unitVars

\* name_thread, called first by create_thread: the naming call; a response
\* gives the title (its content, or the empty text), a provider error is returned
NameThread ==
    /\ flow = "name_thread"
    /\ \E ok \in BOOLEAN :
          /\ title' = IF ok THEN "title" ELSE title
          /\ flow' = IF ok THEN "create_thread" ELSE "err"
    /\ UNCHANGED <<triage, language, plannerCalls, lastResponse, orchResult, tasks, greeting, thread>>
    /\ UNCHANGED <<execVars, workerVars, sharedVars, postVars>>
    /\ UNCHANGED unitVars

\* create_thread after name_thread: create_thread_from_message with the title
CreateThread ==
    /\ flow = "create_thread"
    /\ \E ok \in BOOLEAN :
          /\ thread' = ok
          /\ flow' = IF ok THEN "exec_start" ELSE "err"
    /\ UNCHANGED <<triage, language, plannerCalls, lastResponse, orchResult, tasks, greeting, title>>
    /\ UNCHANGED <<execVars, workerVars, sharedVars, postVars>>
    /\ UNCHANGED unitVars

(***************************************************************************)
(* execute_plan: progress embed, executors, launch loop, join              *)
(***************************************************************************)
\* pcs of a worker that is spawned and has not ended
Running == {"sleep", "poll", "fanout", "agent_wait", "complete_lock", "complete_edit",
            "tool_loop", "followup_wait"}

\* pcs of a worker whose task returned a pair to the JoinSet
Returned == {"done", "noctx", "failed"}

\* dropping the JoinSet aborts every task that is still running
Aborted(w) == [i \in DOMAIN w |-> IF w[i] \in Running THEN "cancelled" ELSE w[i]]

\* languages build_prompt_map has an entry for
PromptLanguages == {"Chinese", "Japanese", "English"}

\* a prompt map that falls back to English for the other languages
HasPrompts_Fallback(lang) == lang \in Languages

\* prompt_map[&language] of create_executors does not panic
HasPrompts(lang) == lang \in PromptLanguages

NoDumps == [m \in Providers |-> 0]

\* a plan() that goes on to the synthesis whatever execute_plan returned
AfterExecute_Always(res) == "synth_lock"

\* plan.rs 106: plan() goes on only when execute_plan returned Some(message_mutex)
AfterExecute(res) == IF res = "empty" THEN "ok" ELSE "synth_lock"

\* execute_plan up to get_current_application_info
ExecStart ==
    /\ flow = "exec_start"
    /\ IF tasks = <<>>
       THEN execResult' = "empty" /\ flow' = AfterExecute("empty")
       ELSE \E r \in {"ok", "err", "no_icon"} :
               /\ flow' = CASE r = "ok" -> "post_embed" [] r = "err" -> "err"
                            [] r = "no_icon" -> "panic"
               /\ execResult' = CASE r = "ok" -> execResult [] r = "err" -> "err"
                                  [] r = "no_icon" -> "panic"
    /\ UNCHANGED <<triage, language, plannerCalls, lastResponse, orchResult, tasks, greeting, title, thread>>
    /\ UNCHANGED <<launched, results, recordDumps>>
    /\ UNCHANGED <<workerVars, sharedVars, postVars>>
    /\ UNCHANGED unitVars

\* send_message of the progress embed, then create_executors
PostEmbed ==
    /\ flow = "post_embed"
    /\ \E ok \in BOOLEAN :
          IF ~ok
          THEN /\ flow' = "err" /\ execResult' = "err"
               /\ UNCHANGED <<workerVars, sharedVars>>
          ELSE /\ embed' = << Line("header", 0) >>
               /\ UNCHANGED <<mutex, original_desc, contexts, writes>>
               /\ IF HasPrompts(language)
                  THEN /\ flow' = "launch" /\ UNCHANGED execResult
                       /\ wpc' = [i \in 1..Len(tasks) |-> "unlaunched"]
                       /\ prov' = [i \in 1..Len(tasks) |-> [m \in Providers |-> "pending"]]
                       /\ dumps' = [i \in 1..Len(tasks) |-> NoDumps]
                       /\ survivors' = [i \in 1..Len(tasks) |-> {}]
                       /\ context' = [i \in 1..Len(tasks) |-> <<>>]
                       /\ choice' = [i \in 1..Len(tasks) |-> NoChoice]
                       /\ retry_count' = [i \in 1..Len(tasks) |-> 0]
                       /\ toolCalls' = [i \in 1..Len(tasks) |-> 0]
                       /\ user_prompt' = [i \in 1..Len(tasks) |-> InitialPrompt]
                       /\ retry_prompt' = [i \in 1..Len(tasks) |-> NoPrompt]
                       /\ tool_failures' = [i \in 1..Len(tasks) |-> 0]
                       /\ last_message' = [i \in 1..Len(tasks) |-> NoChoice]
                  ELSE /\ flow' = "panic" /\ execResult' = "panic"
                       /\ UNCHANGED workerVars
    /\ UNCHANGED <<triage, language, plannerCalls, lastResponse, orchResult, tasks, greeting, title, thread>>
    /\ UNCHANGED <<launched, results, recordDumps>>
    /\ UNCHANGED postVars
    /\ UNCHANGED unitVars

\* a lock that is granted while another task holds it
MutexFree_Unchecked == TRUE

\* message_mutex.lock().await is granted when nobody holds the mutex
MutexFree == mutex = 0

\* the holder h reads the description of the embed it found in the mutex
ReadDescription(h) == [original_desc EXCEPT ![h] = embed]

\* the holder h stores the edited message with its line appended to the
\* description it read
EditedDescription(h, line) == Append(original_desc[h], line)

\* the guard of holder h goes out of scope
Dropped(h) == [original_desc EXCEPT ![h] = <<>>]

\* launch loop: message_mutex.lock() for the next executor
LaunchLock ==
    /\ flow = "launch"
    /\ launched < Len(tasks)
    /\ MutexFree
    /\ mutex' = -1
    /\ original_desc' = ReadDescription(-1)
    /\ flow' = "launch_edit"
    /\ UNCHANGED <<triage, language, plannerCalls, lastResponse, orchResult, tasks, greeting, title, thread>>
    /\ UNCHANGED <<embed, contexts, writes>>
    /\ UNCHANGED <<execVars, workerVars, postVars>>
    /\ UNCHANGED unitVars

\* launch loop: edit_message, store, unlock, join_set.spawn, (sleep 1 s)
LaunchEdit ==
    /\ flow = "launch_edit"
    /\ mutex' = 0
    /\ original_desc' = Dropped(-1)
    /\ \E ok \in BOOLEAN :
          IF ok
          THEN /\ embed' = EditedDescription(-1, Line("exec", launched + 1))
               /\ launched' = launched + 1
               /\ wpc' = [wpc EXCEPT ![launched + 1] = "sleep"]
               /\ flow' = "launch"
               /\ UNCHANGED execResult
          ELSE /\ flow' = "err" /\ execResult' = "err"
               /\ wpc' = Aborted(wpc)
               /\ UNCHANGED <<embed, launched>>
    /\ UNCHANGED <<triage, language, plannerCalls, lastResponse, orchResult, tasks, greeting, title, thread>>
    /\ UNCHANGED <<results, recordDumps, contexts, writes>>
    /\ UNCHANGED <<prov, dumps, survivors, context, choice, retry_count, toolCalls,
                   user_prompt, retry_prompt, tool_failures, last_message>>
    /\ UNCHANGED postVars
    /\ UNCHANGED unitVars

\* join_all a worker panicked in: the panic is resumed in the plan task
JoinPanic ==
    /\ flow = "launch"
    /\ launched = Len(tasks)
    /\ \E i \in Workers : wpc[i] = "panicked"
    /\ flow' = "panic"
    /\ execResult' = "panic"
    /\ wpc' = Aborted(wpc)
    /\ mutex' = 0
    /\ UNCHANGED <<triage, language, plannerCalls, lastResponse, orchResult, tasks, greeting, title, thread>>
    /\ original_desc' = [h \in Holders |-> <<>>]
    /\ UNCHANGED <<launched, results, recordDumps, embed, contexts, writes>>
    /\ UNCHANGED <<prov, dumps, survivors, context, choice, retry_count, toolCalls,
                   user_prompt, retry_prompt, tool_failures, last_message>>
    /\ UNCHANGED postVars
    /\ UNCHANGED unitVars

\* a join that does not wait for the workers
JoinAll_NoWait ==
    /\ flow = "launch"
    /\ launched = Len(tasks)
    /\ results' = { i \in Workers : wpc[i] = "done" }
    /\ recordDumps' = [i \in Workers |-> IF wpc[i] = "failed" THEN NoDumps ELSE dumps[i]]
    /\ execResult' = "ok"
    /\ flow' = AfterExecute("ok")
    /\ UNCHANGED <<triage, language, plannerCalls, lastResponse, orchResult, tasks, greeting, title, thread>>
    /\ UNCHANGED launched
    /\ UNCHANGED <<workerVars, sharedVars, postVars>>
    /\ UNCHANGED unitVars

\* a join that returns as soon as one worker has returned
JoinAll_FirstReturned ==
    /\ flow = "launch"
    /\ launched = Len(tasks)
    /\ \E i \in Workers : wpc[i] \in Returned
    /\ results' = { i \in Workers : wpc[i] = "done" }
    /\ recordDumps' = [i \in Workers |-> IF wpc[i] = "failed" THEN NoDumps ELSE dumps[i]]
    /\ execResult' = "ok"
    /\ flow' = AfterExecute("ok")
    /\ UNCHANGED <<triage, language, plannerCalls, lastResponse, orchResult, tasks, greeting, title, thread>>
    /\ UNCHANGED launched
    /\ UNCHANGED <<workerVars, sharedVars, postVars>>
    /\ UNCHANGED unitVars

\* join_all when every worker returned: flatten the dumps, keep the Contexts
JoinAll ==
    /\ flow = "launch"
    /\ launched = Len(tasks)
    /\ \A i \in Workers : wpc[i] \in Returned
    /\ results' = { i \in Workers : wpc[i] = "done" }
    /\ recordDumps' = [i \in Workers |-> IF wpc[i] = "failed" THEN NoDumps ELSE dumps[i]]
    /\ execResult' = "ok"
    /\ flow' = AfterExecute("ok")
    /\ UNCHANGED <<triage, language, plannerCalls, lastResponse, orchResult, tasks, greeting, title, thread>>
    /\ UNCHANGED launched
    /\ UNCHANGED <<workerVars, sharedVars, postVars>>
    /\ UNCHANGED unitVars

(***************************************************************************)
(* The worker of task i: Executor::execute, then the closure of            *)
(* execute_plan (completion line, Transport tool loop, Context insert)     *)
(***************************************************************************)
\* a readiness test that is satisfied once the dependencies are launched
DepsReady_Launched(i) ==
    \A d \in tasks[i].dependencies :
        \E j \in Workers : tasks[j].task_id = d /\ wpc[j] # "unlaunched"

\* a readiness test against the task ids of the plan instead of the map's keys
DepsReady_Known(i) == \A d \in tasks[i].dependencies : d \in TaskIds(tasks)

\* dependencies.iter().all(|task_id| context_keys.contains(task_id))
DepsReady(i) == \A d \in tasks[i].dependencies : d \in ContextKeys

\* the loop of Executor::execute: tokio::time::sleep(1 s)
Sleep(i) ==
    /\ wpc[i] = "sleep"
    /\ wpc' = [wpc EXCEPT ![i] = "poll"]
    /\ UNCHANGED <<prov, dumps, survivors, context, choice, retry_count, toolCalls,
                   user_prompt, retry_prompt, tool_failures, last_message>>
    /\ UNCHANGED <<planVars, execVars, sharedVars, postVars>>
    /\ UNCHANGED unitVars

\* a collection that takes the content of every entry of the Context map
DependencyContents_All(i) == [d \in ContextKeys |-> contexts[d]]

\* agent/mod.rs 246-250: the contents of the entries whose key is a dependency
DependencyContents(i) == [d \in tasks[i].dependencies \cap ContextKeys |-> contexts[d]]

\* the loop of Executor::execute: snapshot the keys, test, break or sleep again;
\* on break collect the dependencies' contents for $CONTEXT and start the fan-out
Poll(i) ==
    /\ wpc[i] = "poll"
    /\ IF DepsReady(i)
       THEN /\ wpc' = [wpc EXCEPT ![i] = "fanout"]
            /\ context' = [context EXCEPT ![i] = DependencyContents(i)]
            /\ user_prompt' = [user_prompt EXCEPT ![i] =
                                  ReplaceContext(@, ContextString(context'[i]))]
       ELSE /\ wpc' = [wpc EXCEPT ![i] = "sleep"]
            /\ UNCHANGED <<context, user_prompt>>
    /\ UNCHANGED <<prov, dumps, survivors, choice, retry_count, toolCalls,
                   retry_prompt, tool_failures, last_message>>
    /\ UNCHANGED <<planVars, execVars, sharedVars, postVars>>
    /\ UNCHANGED unitVars

\* one spawned provider call of the fan-out ends; a response pushes its dump
ProviderCall(i, m) ==
    /\ wpc[i] = "fanout"
    /\ prov[i][m] = "pending"
    /\ \E o \in Outcomes :
          /\ prov' = [prov EXCEPT ![i][m] = o]
          /\ dumps' = [dumps EXCEPT ![i][m] =
                          IF o \in {"ok", "okFail"} THEN @ + 1 ELSE @]
    /\ UNCHANGED <<wpc, survivors, context, choice, retry_count, toolCalls,
                   user_prompt, retry_prompt, tool_failures, last_message>>
    /\ UNCHANGED <<planVars, execVars, sharedVars, postVars>>
    /\ UNCHANGED unitVars

\* contexts_clone.insert(task_id, ctx)
Inserted(i, src) == [contexts EXCEPT ![tasks[i].task_id] = Content(i, src)]

Counted(i) == [writes EXCEPT ![tasks[i].task_id] = @ + 1]

\* the worker gives up its Context when the answer carries a tool call
EntersToolLoop_AnyAgent(i, c) == c.finish = "tool_calls" /\ c.tool

\* plan.rs 518-527: the tool loop is entered by a Transport task whose answer
\* has finish_reason tool_calls and a first tool call
EntersToolLoop(i, c) ==
    tasks[i].agent = "Transport" /\ c.finish = "tool_calls" /\ c.tool

\* plan.rs 513-656 for the answer c of the agent call: enter the tool loop, or
\* make the Context from the content and insert it
Settle(i, c) ==
    IF EntersToolLoop(i, c)
    THEN /\ wpc' = [wpc EXCEPT ![i] =
                       IF 0 >= MAX_TOOL_RETRY_COUNT THEN "noctx" ELSE "tool_loop"]
         /\ retry_count' = [retry_count EXCEPT ![i] = 0]
         /\ UNCHANGED <<contexts, writes>>
    ELSE IF c.content
    THEN /\ wpc' = [wpc EXCEPT ![i] = "done"]
         /\ contexts' = Inserted(i, "agent")
         /\ writes' = Counted(i)
         /\ UNCHANGED retry_count
    ELSE /\ wpc' = [wpc EXCEPT ![i] = "noctx"]
         /\ UNCHANGED <<contexts, writes, retry_count>>

\* join_all of the fan-out, the "Fail" filter, and the agent-consolidation call
AgentCall(i) ==
    /\ wpc[i] = "fanout"
    /\ \A m \in Providers : prov[i][m] # "pending"
    /\ survivors' = [survivors EXCEPT ![i] =
                        { m \in Providers : ~StartsWithFail(ResultText(prov[i][m])) }]
    /\ user_prompt' = [user_prompt EXCEPT ![i] =
                          ReplaceAgent(@, TransportAgentPrompt(tasks[i].agent))]
    /\ \E r \in Failures \cup AgentAnswers(tasks[i].agent) \cup {Unanswered} :
          IF r \in Failures
          THEN \* execute returns Err: the worker returns (None, vec![])
               /\ wpc' = [wpc EXCEPT ![i] = "failed"]
               /\ UNCHANGED <<choice, retry_count, contexts, writes>>
          ELSE IF r = Unanswered
          THEN \* the await of the request never completes
               /\ wpc' = [wpc EXCEPT ![i] = "agent_wait"]
               /\ UNCHANGED <<choice, retry_count, contexts, writes>>
          ELSE /\ choice' = [choice EXCEPT ![i] = r]
               /\ IF r.content
                  THEN /\ wpc' = [wpc EXCEPT ![i] = "complete_lock"]
                       /\ UNCHANGED <<retry_count, contexts, writes>>
                  ELSE Settle(i, r)
    /\ UNCHANGED <<prov, dumps, context, toolCalls, retry_prompt, tool_failures, last_message>>
    /\ UNCHANGED <<mutex, embed, original_desc>>
    /\ UNCHANGED <<planVars, execVars, postVars>>
    /\ UNCHANGED unitVars

\* the answer has content: message_mutex_clone.lock()
CompleteLock(i) ==
    /\ wpc[i] = "complete_lock"
    /\ MutexFree
    /\ mutex' = i
    /\ original_desc' = ReadDescription(i)
    /\ wpc' = [wpc EXCEPT ![i] = "complete_edit"]
    /\ UNCHANGED <<embed, contexts, writes>>
    /\ UNCHANGED <<prov, dumps, survivors, context, choice, retry_count, toolCalls,
                   user_prompt, retry_prompt, tool_failures, last_message>>
    /\ UNCHANGED <<planVars, execVars, postVars>>
    /\ UNCHANGED unitVars

\* append "T completed.", edit_message(...).expect(..), store, unlock; then the
\* rest of the closure up to its next await
CompleteEdit(i) ==
    /\ wpc[i] = "complete_edit"
    /\ mutex' = 0
    /\ original_desc' = Dropped(i)
    /\ \E ok \in BOOLEAN :
          IF ok
          THEN /\ embed' = EditedDescription(i, Line("done", i))
               /\ Settle(i, choice[i])
          ELSE /\ wpc' = [wpc EXCEPT ![i] = "panicked"]
               /\ UNCHANGED <<embed, contexts, writes, retry_count>>
    /\ UNCHANGED <<prov, dumps, survivors, context, choice, toolCalls,
                   user_prompt, retry_prompt, tool_failures, last_message>>
    /\ UNCHANGED <<planVars, execVars, postVars>>
    /\ UNCHANGED unitVars

\* a loop that counts only the iterations whose tool call failed
NextRetry_FailedOnly(r, toolFailed) == IF toolFailed THEN r + 1 ELSE r

\* a loop that does not count the iterations whose tool call failed
NextRetry_SucceededOnly(r, toolFailed) == IF toolFailed THEN r ELSE r + 1

\* retry_count += 1 of both continuing paths of the loop
NextRetry(r, toolFailed) == r + 1

\* pc after retry_count became r: the test at the head of the loop
LoopHead(r) == IF r >= MAX_TOOL_RETRY_COUNT THEN "noctx" ELSE "tool_loop"

\* a Context made from the agent answer instead of the follow-up response
FollowUpContext_FromAgent(i) == Inserted(i, "agent")

\* plan.rs 603-614: the Context made from the content of the follow-up response
FollowUpContext(i) == Inserted(i, "followup")

\* plan.rs 600-601: the response has a finish_reason and it is not tool_calls
EndsLoop(r) == r.finish \notin {"none", "tool_calls"}

\* one iteration of the tool loop (plan.rs 535-628): the user prompt,
\* handle_tool_call, then build_transport_agent_final_message and the test of
\* its finish_reason
ToolIteration(i) ==
    /\ wpc[i] = "tool_loop"
    /\ retry_count[i] < MAX_TOOL_RETRY_COUNT
    /\ \E toolOk \in BOOLEAN :
          IF ~toolOk
          THEN /\ tool_failures' = [tool_failures EXCEPT ![i] = @ + 1]
               /\ retry_count' = [retry_count EXCEPT ![i] = NextRetry(@, TRUE)]
               /\ wpc' = [wpc EXCEPT ![i] = LoopHead(retry_count'[i])]
               /\ UNCHANGED <<toolCalls, retry_prompt, last_message, contexts, writes>>
          ELSE /\ toolCalls' = [toolCalls EXCEPT ![i] = @ + 1]
               /\ retry_prompt' = [retry_prompt EXCEPT ![i] =
                      SentPrompt(retry_count[i], RetryUserPrompt(user_prompt[i], retry_count[i]))]
               /\ UNCHANGED tool_failures
               /\ \E r \in Failures \cup FollowUpAnswers \cup {Unanswered} :
                     IF r \in Failures
                     THEN \* .expect("Failed to build final message ...")
                          /\ wpc' = [wpc EXCEPT ![i] = "panicked"]
                          /\ UNCHANGED <<retry_count, last_message, contexts, writes>>
                     ELSE IF r = Unanswered
                     THEN \* the await of the request never completes
                          /\ wpc' = [wpc EXCEPT ![i] = "followup_wait"]
                          /\ UNCHANGED <<retry_count, last_message, contexts, writes>>
                     ELSE /\ last_message' = [last_message EXCEPT ![i] = r]
                          /\ IF EndsLoop(r)
                             THEN IF r.content
                                  THEN /\ wpc' = [wpc EXCEPT ![i] = "done"]
                                       /\ contexts' = FollowUpContext(i)
                                       /\ writes' = Counted(i)
                                       /\ UNCHANGED retry_count
                                  ELSE /\ wpc' = [wpc EXCEPT ![i] = "noctx"]
                                       /\ UNCHANGED <<retry_count, contexts, writes>>
                             ELSE IF r.tool
                             THEN /\ retry_count' = [retry_count EXCEPT ![i] = NextRetry(@, FALSE)]
                                  /\ wpc' = [wpc EXCEPT ![i] = LoopHead(retry_count'[i])]
                                  /\ UNCHANGED <<contexts, writes>>
                             ELSE \* .expect("Failed to extract tool call from response.")
                                  /\ wpc' = [wpc EXCEPT ![i] = "panicked"]
                                  /\ UNCHANGED <<retry_count, contexts, writes>>
    /\ UNCHANGED <<prov, dumps, survivors, context, choice, user_prompt>>
    /\ UNCHANGED <<mutex, embed, original_desc>>
    /\ UNCHANGED <<planVars, execVars, postVars>>
    /\ UNCHANGED unitVars

Worker(i) ==
    \/ Sleep(i)
    \/ Poll(i)
    \/ \E m \in Providers : ProviderCall(i, m)
    \/ AgentCall(i)
    \/ CompleteLock(i)
    \/ CompleteEdit(i)
    \/ ToolIteration(i)

\* the steps of the spawned workers, by kind
WorkerSleep == \E i \in Workers : Sleep(i)

WorkerPoll == \E i \in Workers : Poll(i)

WorkerProviderCall == \E i \in Workers : \E m \in Providers : ProviderCall(i, m)

WorkerAgentCall == \E i \in Workers : AgentCall(i)

WorkerCompleteLock == \E i \in Workers : CompleteLock(i)

WorkerCompleteEdit == \E i \in Workers : CompleteEdit(i)

WorkerToolIteration == \E i \in Workers : ToolIteration(i)

(***************************************************************************)
(* plan() after execute_plan returned Some(message_mutex)                  *)
(***************************************************************************)
\* message_mutex.lock() for the synthesis notice
SynthLock ==
    /\ flow = "synth_lock"
    /\ MutexFree
    /\ mutex' = -1
    /\ original_desc' = ReadDescription(-1)
    /\ flow' = "synth_edit"
    /\ UNCHANGED <<triage, language, plannerCalls, lastResponse, orchResult, tasks, greeting, title, thread>>
    /\ UNCHANGED <<embed, contexts, writes>>
    /\ UNCHANGED <<execVars, workerVars, postVars>>
    /\ UNCHANGED unitVars

\* append "Synthesizing final result...", edit_message(...)?, store, unlock
SynthEdit ==
    /\ flow = "synth_edit"
    /\ mutex' = 0
    /\ original_desc' = Dropped(-1)
    /\ \E ok \in BOOLEAN :
          IF ok
          THEN embed' = EditedDescription(-1, Line("synth", 0)) /\ flow' = "synthesize"
          ELSE UNCHANGED embed /\ flow' = "err"
    /\ UNCHANGED <<triage, language, plannerCalls, lastResponse, orchResult, tasks, greeting, title, thread>>
    /\ UNCHANGED <<contexts, writes>>
    /\ UNCHANGED <<execVars, workerVars, postVars>>
    /\ UNCHANGED unitVars

\* how the request of synthesize can end
SynthOutcomes == {"ok", "err", "unparsable", "no_choice"}

\* a synthesis whose error is logged and not returned
AfterSynthesize_Logged(r) == IF r = "no_choice" THEN "panic" ELSE "insert_plan"

\* plan.rs 128 with 873-897: a provider error or an undecodable FinalResult
\* is returned with ?, a response without choices panics at res.choices[0]
AfterSynthesize(r) ==
    CASE r = "ok" -> "insert_plan"
      [] r = "no_choice" -> "panic"
      [] OTHER -> "err"

\* synthesize: one request
Synthesize ==
    /\ flow = "synthesize"
    /\ synthCalls' = synthCalls + 1
    /\ \E r \in SynthOutcomes :
          /\ synthesis' = r
          /\ flow' = AfterSynthesize(r)
    /\ UNCHANGED <<triage, language, plannerCalls, lastResponse, orchResult, tasks, greeting, title, thread>>
    /\ UNCHANGED <<stored, mapped, delivered, inserts, plans, mappings>>
    /\ UNCHANGED <<execVars, workerVars, sharedVars>>
    /\ UNCHANGED unitVars

\* plan_record.id, and record_id = plan_record.id.to_string()
RecordId == [uuid |-> "id"]

DocumentId(id) == id.uuid

\* plan.rs 924-929: the PlanMapping of the record
Mapping(id) == [document_id |-> DocumentId(id), plan_id |-> id]

\* an insert_record that goes on to the mapping after a failed first write
AfterInsertPlan_Continue(ok) == "insert_mapping"

\* plan.rs 908-922: the error of the first write is returned
AfterInsertPlan(ok) == IF ok THEN "insert_mapping" ELSE "err"

\* insert_record: the PlanRecord, under the document id record_id
InsertPlan ==
    /\ flow = "insert_plan"
    /\ inserts' = [inserts EXCEPT !.plan = @ + 1]
    /\ \E ok \in BOOLEAN :
          /\ stored' = ok
          /\ plans' = IF ok THEN plans \cup {DocumentId(RecordId)} ELSE plans
          /\ flow' = AfterInsertPlan(ok)
    /\ UNCHANGED <<triage, language, plannerCalls, lastResponse, orchResult, tasks, greeting, title, thread>>
    /\ UNCHANGED <<synthCalls, mapped, delivered, synthesis, mappings>>
    /\ UNCHANGED <<execVars, workerVars, sharedVars>>
    /\ UNCHANGED unitVars

\* insert_record: the PlanMapping, under the same document id
InsertMapping ==
    /\ flow = "insert_mapping"
    /\ inserts' = [inserts EXCEPT !.mapping = @ + 1]
    /\ \E ok \in BOOLEAN :
          /\ mapped' = ok
          /\ mappings' = IF ok THEN mappings \cup {Mapping(RecordId)} ELSE mappings
          /\ flow' = IF ok THEN "send_final" ELSE "err"
    /\ UNCHANGED <<triage, language, plannerCalls, lastResponse, orchResult, tasks, greeting, title, thread>>
    /\ UNCHANGED <<synthCalls, stored, delivered, synthesis, plans>>
    /\ UNCHANGED <<execVars, workerVars, sharedVars>>
    /\ UNCHANGED unitVars

\* send_final_result_message
SendFinal ==
    /\ flow = "send_final"
    /\ \E ok \in BOOLEAN :
          /\ delivered' = ok
          /\ flow' = IF ok THEN "ok" ELSE "err"
    /\ UNCHANGED <<triage, language, plannerCalls, lastResponse, orchResult, tasks, greeting, title, thread>>
    /\ UNCHANGED <<synthCalls, stored, mapped, synthesis, inserts, plans, mappings>>
    /\ UNCHANGED <<execVars, workerVars, sharedVars>>
    /\ UNCHANGED unitVars

\* the steps of the plan task (plan() and, inside it, execute_plan)
PlanTask ==
    \/ DetermineLanguage
    \/ Orchestrate
    \/ SendGreeting
    \/ NameThread
    \/ CreateThread
    \/ ExecStart
    \/ PostEmbed
    \/ LaunchLock
    \/ LaunchEdit
    \/ JoinPanic
    \/ JoinAll
    \/ SynthLock
    \/ SynthEdit
    \/ Synthesize
    \/ InsertPlan
    \/ InsertMapping
    \/ SendFinal

Next ==
    \/ PlanTask
    \/ WorkerSleep
    \/ WorkerPoll
    \/ WorkerProviderCall
    \/ WorkerAgentCall
    \/ WorkerCompleteLock
    \/ WorkerCompleteEdit
    \/ WorkerToolIteration

Spec == Init /\ [][Next]_vars

\* the runtime schedules the plan task and every spawned worker
FairSpec ==
    /\ Spec
    /\ WF_vars(PlanTask)
    /\ \A i \in TaskIndices : WF_vars(i \in Workers /\ Worker(i))

(***************************************************************************)
(* send_final_result_message on its own: the argument is a String of       *)
(* `length` code points, each `width` bytes long                           *)
(***************************************************************************)
\* longest argument drawn
MaxLength == 2001

\* plan.rs 956-964: the chunk size
ChunkSize == 1000

\* final_result.chars().count()
Count(s) == IF s.hi < s.lo THEN 0 ELSE s.hi - s.lo + 1

\* the length of the String in bytes
ByteLen(s) == Count(s) * width

\* a prefix cut at a byte offset
Take_Bytes(s, k) == Str(s.lo, IF s.lo + (k \div width) - 1 < s.hi
                              THEN s.lo + (k \div width) - 1 ELSE s.hi)

\* final_result.chars().take(k).collect()
Take(s, k) == Str(s.lo, IF s.lo + k - 1 < s.hi THEN s.lo + k - 1 ELSE s.hi)

\* final_result.chars().skip(k).collect()
Skip(s, k) == Str(IF s.lo + k > s.hi + 1 THEN s.hi + 1 ELSE s.lo + k, s.hi)

ChunkInit ==
    /\ cpc = "call"
    /\ width \in {1, 3}
    /\ length \in 0..MaxLength
    /\ final_result = Str(1, length)
    /\ character_count = 0
    /\ messages = <<>>
    /\ posted = <<>>

\* plan.rs 955-956 and 972-974: count, and either enter the loop or keep the
\* argument as the only message
CountChars ==
    /\ cpc = "call"
    /\ character_count' = Count(final_result)
    /\ IF Count(final_result) > ChunkSize
       THEN cpc' = "loop" /\ messages' = <<>>
       ELSE cpc' = "send" /\ messages' = <<final_result>>
    /\ UNCHANGED <<width, length, final_result, posted>>
    /\ UNCHANGED <<planVars, execVars, workerVars, sharedVars, postVars>>
    /\ UNCHANGED <<handlerVars, mapsVars, served, prompted>>

\* plan.rs 959-969: one test of the while condition and, when it holds, one
\* iteration
ChunkLoop ==
    /\ cpc = "loop"
    /\ IF character_count > 0
       THEN IF character_count >= ChunkSize
            THEN /\ messages' = Append(messages, Take(final_result, ChunkSize))
                 /\ final_result' = Skip(final_result, ChunkSize)
                 /\ character_count' = Count(Skip(final_result, ChunkSize))
                 /\ UNCHANGED cpc
            ELSE /\ messages' = Append(messages, final_result)
                 /\ character_count' = 0
                 /\ UNCHANGED <<cpc, final_result>>
       ELSE cpc' = "send" /\ UNCHANGED <<messages, final_result, character_count>>
    /\ UNCHANGED <<width, length, posted>>
    /\ UNCHANGED <<planVars, execVars, workerVars, sharedVars, postVars>>
    /\ UNCHANGED <<handlerVars, mapsVars, served, prompted>>

\* plan.rs 976-983: send_message(...).await? of the next message
SendChunk ==
    /\ cpc = "send"
    /\ Len(posted) < Len(messages)
    /\ \E ok \in BOOLEAN :
          IF ok
          THEN posted' = Append(posted, messages[Len(posted) + 1]) /\ UNCHANGED cpc
          ELSE cpc' = "err" /\ UNCHANGED posted
    /\ UNCHANGED <<width, length, final_result, character_count, messages>>
    /\ UNCHANGED <<planVars, execVars, workerVars, sharedVars, postVars>>
    /\ UNCHANGED <<handlerVars, mapsVars, served, prompted>>

\* plan.rs 985: Ok(()) after the last message
ChunkReturn ==
    /\ cpc = "send"
    /\ Len(posted) = Len(messages)
    /\ cpc' = "ok"
    /\ UNCHANGED <<width, length, final_result, character_count, messages, posted>>
    /\ UNCHANGED <<planVars, execVars, workerVars, sharedVars, postVars>>
    /\ UNCHANGED <<handlerVars, mapsVars, served, prompted>>

ChunkNext ==
    \/ CountChars
    \/ ChunkLoop
    \/ SendChunk
    \/ ChunkReturn

\* the plan task at send_final_result_message, the other units at rest
ChunkSpecInit == PlanInit /\ ChunkInit /\ HandlerInit /\ MapsInit /\ served = <<>> /\ prompted = <<>>

ChunkSpec == ChunkSpecInit /\ [][ChunkNext]_vars

(***************************************************************************)
(* handle_interaction, and handle_command_interaction in each spawned task *)
(***************************************************************************)
\* requests drawn
MaxRequests == 3

\* request bodies: one that decodes as a CommandInteraction, with the name of
\* its command; one that only decodes as an InteractionRequest, with its type;
\* one that decodes as neither
Bodies ==
    { [kind |-> "command", name |-> n, type |-> 2] : n \in {"plan", "unknown"} }
    \cup { [kind |-> "typed", name |-> "", type |-> t] : t \in {1, 3} }
    \cup { [kind |-> "opaque", name |-> "", type |-> 0] }

\* serde_json::from_slice::<CommandInteraction>(&bytes) is Ok
DecodesAsCommand(b) == b.kind = "command"

\* serde_json::from_slice::<InteractionRequest>(&bytes) is Ok
DecodesAsRequest(b) == b.kind \in {"command", "typed"}

Defer == [status |-> 200, body |-> "defer"]

Pong == [status |-> 200, body |-> "type1"]

BadRequest == [status |-> 400, body |-> "none"]

\* a handler that answers every InteractionRequest as a ping
Response_AnyPing(b) ==
    IF DecodesAsCommand(b) THEN Defer
    ELSE IF DecodesAsRequest(b) THEN Pong ELSE BadRequest

\* interaction.rs 70-98: the Response for body b
Response(b) ==
    IF DecodesAsCommand(b) THEN Defer
    ELSE IF DecodesAsRequest(b)
         THEN IF b.type = 1 THEN Pong ELSE BadRequest
         ELSE BadRequest

\* the commands register_command put into COMMAND_REGISTRY
Registered == {"plan"}

\* how the handler of a command, the plan flow, can end; "blocked" is a plan
\* flow that never returns
PlanOutcomes == {"ok", "err", "panic", "blocked"}

\* handle_interaction for one request: decode, spawn for a command, respond
HandleInteraction ==
    /\ Len(requests) < MaxRequests
    /\ \E b \in Bodies :
          /\ requests' = Append(requests, b)
          /\ responses' = Append(responses, Response(b))
          /\ pipelines' = IF DecodesAsCommand(b)
                          THEN Append(pipelines, [request |-> Len(requests) + 1,
                                                  name |-> b.name, pc |-> "spawned"])
                          ELSE pipelines
    /\ UNCHANGED registry
    /\ UNCHANGED <<planVars, execVars, workerVars, sharedVars, postVars, chunkVars, mapsVars, served, prompted>>

\* call_command: COMMAND_REGISTRY.lock().await, then registry.get(name); the
\* guard lives to the end of the block, across handler(...).await
CallCommand(p) ==
    /\ pipelines[p].pc = "spawned"
    /\ registry = 0
    /\ IF pipelines[p].name \in Registered
       THEN /\ registry' = p
            /\ pipelines' = [pipelines EXCEPT ![p].pc = "running"]
       ELSE /\ pipelines' = [pipelines EXCEPT ![p].pc = "err"]
            /\ UNCHANGED registry
    /\ UNCHANGED <<requests, responses>>
    /\ UNCHANGED <<planVars, execVars, workerVars, sharedVars, postVars, chunkVars, mapsVars, served, prompted>>

\* handler(...).await ends, or never does; the guard is dropped when it ends
PlanEnds(p) ==
    /\ pipelines[p].pc = "running"
    /\ \E r \in PlanOutcomes :
          /\ pipelines' = [pipelines EXCEPT ![p].pc = r]
          /\ registry' = IF r = "blocked" THEN registry ELSE 0
    /\ UNCHANGED <<requests, responses>>
    /\ UNCHANGED <<planVars, execVars, workerVars, sharedVars, postVars, chunkVars, mapsVars, served, prompted>>

PipelineCallCommand == \E p \in DOMAIN pipelines : CallCommand(p)

PipelinePlanEnds == \E p \in DOMAIN pipelines : PlanEnds(p)

HandlerNext ==
    \/ HandleInteraction
    \/ PipelineCallCommand
    \/ PipelinePlanEnds

HandlerSpec == Init /\ [][HandlerNext]_vars

(***************************************************************************)
(* handle_tool_call with get_latitude_and_longitude and get_travel_time:   *)
(* the tool calls of the tool loop of one Transport task                   *)
(***************************************************************************)
\* handle_tool_call invocations drawn
MaxToolCalls == 2

Route(from, to, by) == [from |-> from, to |-> to, by |-> by]

\* the TransferPlans the tool-call arguments decode to
TransferPlans ==
    { <<>>,
      << Route("A", "B", "DriveOrTaxi") >>,
      << Route("A", "B", "PublicTransport") >>,
      << Route("A", "A", "DriveOrTaxi") >>,
      << Route("A", "B", "DriveOrTaxi"), Route("B", "A", "PublicTransport") >>,
      << Route("A", "B", "PublicTransport"), Route("A", "B", "DriveOrTaxi") >> }

\* how a directions request can end: an error, a response with a route, a
\* response without routes
DirectionsOutcomes == {"failed", "routes", "no_routes"}

Some(v) == [some |-> TRUE, value |-> v]

None == [some |-> FALSE, value |-> ""]

\* extract_duration_text: the text of the first leg, or the default String
DurationText(o) == IF o = "routes" THEN "mins" ELSE ""

\* a request pair that asks for the same mode twice
TravelModes_Same(by) ==
    IF by = "DriveOrTaxi" THEN <<"Driving", "Driving">> ELSE <<"Transit", "Transit">>

\* google_maps.rs 80-83: (travel_mode, alternative_travel_mode)
TravelModes(by) ==
    IF by = "DriveOrTaxi" THEN <<"Driving", "Transit">> ELSE <<"Transit", "Driving">>

\* google_maps.rs 112-115: alternative_transfer_method
AlternativeMethod(mode) ==
    IF mode = "Driving" THEN "DriveOrTaxi" ELSE "PublicTransport"

\* google_maps.rs 117-159: the pair get_travel_time returns for the outcomes
\* p and a of the primary and the alternative request
TravelTime(by, p, a) ==
    [duration |-> IF p = "failed" THEN "No result" ELSE DurationText(p),
     alternative |-> [by |-> AlternativeMethod(TravelModes(by)[2]),
                      duration |-> IF a = "failed" THEN None ELSE Some(DurationText(a))]]

\* plan.rs 993-999: decode the arguments, make the Vecs and the DashMap
HandleToolCall ==
    /\ mpc = "idle"
    /\ calls < MaxToolCalls
    /\ calls' = calls + 1
    /\ \E decoded \in BOOLEAN :
          IF decoded
          THEN /\ \E t \in TransferPlans : transfer_plan' = t
               /\ mpc' = "running"
               /\ UNCHANGED tool_result
          ELSE /\ mpc' = "returned"
               /\ tool_result' = "err_arguments"
               /\ UNCHANGED transfer_plan
    /\ lat_lngs' = {}
    /\ UNCHANGED <<geocoded, answered, located, directions, route_results>>
    /\ UNCHANGED <<planVars, execVars, workerVars, sharedVars, postVars, chunkVars, handlerVars, served, prompted>>

\* get_latitude_and_longitude for the next route: each of from and to is
\* taken from lat_lngs when it is there and geocoded and inserted otherwise;
\* a failed geocoding request is returned with ? by handle_tool_call
Geocode ==
    /\ mpc = "running"
    /\ located < Len(transfer_plan)
    /\ LET route == transfer_plan[located + 1]
           askFrom == route.from \notin lat_lngs
       IN  \E fromOk \in (IF askFrom THEN BOOLEAN ELSE {TRUE}) :
             LET afterFrom == IF askFrom /\ fromOk
                              THEN lat_lngs \cup {route.from} ELSE lat_lngs
                 askTo == fromOk /\ route.to \notin afterFrom
             IN  \E toOk \in (IF askTo THEN BOOLEAN ELSE {TRUE}) :
                   /\ geocoded' = [n \in Places |->
                                     geocoded[n]
                                     + (IF askFrom /\ n = route.from THEN 1 ELSE 0)
                                     + (IF askTo /\ n = route.to THEN 1 ELSE 0)]
                   /\ lat_lngs' = IF askTo /\ toOk
                                  THEN afterFrom \cup {route.to} ELSE afterFrom
                   /\ answered' = answered
                                   \cup (IF askFrom /\ fromOk THEN {route.from} ELSE {})
                                   \cup (IF askTo /\ toOk THEN {route.to} ELSE {})
                   /\ IF fromOk /\ toOk
                      THEN /\ located' = located + 1
                           /\ UNCHANGED <<mpc, tool_result>>
                      ELSE /\ mpc' = "returned"
                           /\ tool_result' = "err_geocoding"
                           /\ UNCHANGED located
    /\ UNCHANGED <<calls, transfer_plan, directions, route_results>>
    /\ UNCHANGED <<planVars, execVars, workerVars, sharedVars, postVars, chunkVars, handlerVars, served, prompted>>

\* plan.rs 1019-1029: get_travel_time for the next route, and the push of its
\* RouteWithDuration
GetTravelTime ==
    /\ mpc = "running"
    /\ located = Len(transfer_plan)
    /\ Len(route_results) < Len(transfer_plan)
    /\ LET route == transfer_plan[Len(route_results) + 1]
       IN  \E p \in DirectionsOutcomes, a \in DirectionsOutcomes :
             /\ directions' = Append(directions, [primary |-> p, alternative |-> a])
             /\ route_results' =
                   Append(route_results,
                          [from |-> route.from, to |-> route.to, by |-> route.by,
                           duration |-> TravelTime(route.by, p, a).duration,
                           alternative |-> TravelTime(route.by, p, a).alternative])
    /\ UNCHANGED <<mpc, calls, transfer_plan, lat_lngs, geocoded, answered, located, tool_result>>
    /\ UNCHANGED <<planVars, execVars, workerVars, sharedVars, postVars, chunkVars, handlerVars, served, prompted>>

\* plan.rs 1033: Ok(results)
ToolCallReturn ==
    /\ mpc = "running"
    /\ located = Len(transfer_plan)
    /\ Len(route_results) = Len(transfer_plan)
    /\ mpc' = "returned"
    /\ tool_result' = "ok"
    /\ UNCHANGED <<calls, transfer_plan, lat_lngs, geocoded, answered, located, directions, route_results>>
    /\ UNCHANGED <<planVars, execVars, workerVars, sharedVars, postVars, chunkVars, handlerVars, served, prompted>>

\* the tool loop takes the result; the locals of the call are dropped
ToolLoopResumes ==
    /\ mpc = "returned"
    /\ mpc' = "idle"
    /\ transfer_plan' = <<>>
    /\ lat_lngs' = {}
    /\ located' = 0
    /\ directions' = <<>>
    /\ route_results' = <<>>
    /\ tool_result' = "none"
    /\ UNCHANGED <<calls, geocoded, answered>>
    /\ UNCHANGED <<planVars, execVars, workerVars, sharedVars, postVars, chunkVars, handlerVars, served, prompted>>

MapsNext ==
    \/ HandleToolCall
    \/ Geocode
    \/ GetTravelTime
    \/ ToolCallReturn
    \/ ToolLoopResumes

MapsSpec == Init /\ [][MapsNext]_vars

(***************************************************************************)
(* validate_interaction: the signature check in front of the handler       *)
(***************************************************************************)
\* requests drawn
MaxServed == 2

\* what the X-Signature-Ed25519 header can hold: nothing, text that is not
\* hex, hex of another length than a signature, or a signature made by
\* `signer` over the bytes `over`
Signatures ==
    { [form |-> f, signer |-> "", over |-> <<>>] : f \in {"missing", "not_hex", "short"} }
    \cup { [form |-> "signature", signer |-> k, over |-> m] :
              k \in {"application", "other"}, m \in {<<1, 2, 3>>, <<1, 3>>} }

\* a request: the two headers and the body, which is UTF-8 or not
SignedRequests ==
    { [signature |-> g, timestamp |-> t, body |-> b, utf8 |-> u] :
         g \in Signatures, t \in {<<1>>, <<1, 2>>}, b \in {<<2, 3>>, <<3>>}, u \in BOOLEAN }

\* discord_validation.rs 67: format!("{timestamp}{s}")
Message(r) == r.timestamp \o r.body

\* hex::decode(&signature) is Ok: the missing header is the empty string
HexDecodes(g) == g.form # "not_hex"

\* nacl::sign::verify: an error for a signature of the wrong length, else
\* whether the signature is one of the key over the message
Verify(g, message, key) ==
    IF g.form # "signature" THEN "Err"
    ELSE IF g.signer = key /\ g.over = message THEN "true" ELSE "false"

\* a check that answers 500 where hex::decode fails
Validate_NoPanic(r) ==
    IF ~r.utf8 \/ ~HexDecodes(r.signature) THEN "500"
    ELSE CASE Verify(r.signature, Message(r), "application") = "true" -> "next"
           [] Verify(r.signature, Message(r), "application") = "false" -> "401"
           [] OTHER -> "500"

\* discord_validation.rs 59-98, and 29-32: how the middleware ends for
\* request r: "next" runs the handler, "panic" is the expect on hex::decode
Validate(r) ==
    IF ~r.utf8 THEN "500"
    ELSE IF ~HexDecodes(r.signature) THEN "panic"
    ELSE CASE Verify(r.signature, Message(r), "application") = "true" -> "next"
           [] Verify(r.signature, Message(r), "application") = "false" -> "401"
           [] OTHER -> "500"

\* validate_interaction for one request
ValidateInteraction ==
    /\ Len(served) < MaxServed
    /\ \E r \in SignedRequests :
          served' = Append(served, [request |-> r, ended |-> Validate(r)])
    /\ UNCHANGED <<planVars, execVars, workerVars, sharedVars, postVars>>
    /\ UNCHANGED <<chunkVars, handlerVars, mapsVars, prompted>>

ValidateSpec == Init /\ [][ValidateInteraction]_vars

(***************************************************************************)
(* The user prompt of an Executor: create_executors, the substitutions of  *)
(* Executor::execute and those of the tool loop.  A text is a sequence of  *)
(* words, and a placeholder is one word.                                   *)
(***************************************************************************)
\* prompts built
MaxPrompted == 1

\* the literal texts of placeholders that a text from outside can contain
Literals ==
    {"$CONTEXT", "$AGENT", "$AGENT_TRANSPORT", "$RETRY_COUNT", "$MAXIMUM_RETRY_REACHED"}

\* a text that is not part of the configuration: the plain word, or the word
\* followed by the literal text of a placeholder
Texts(word) == { <<word>> } \cup { <<word, m>> : m \in Literals }

\* the user, agent and transport prompt of the prompt pack of a language
ConfiguredUser == <<"task", "$INSTRUCTION", "given", "$CONTEXT", "$AGENT">>

ConfiguredAgent == <<"choose", "$RESULTS", "$AGENT_TRANSPORT">>

ConfiguredTransportAgent == <<"attempt", "$RETRY_COUNT", "$MAXIMUM_RETRY_REACHED">>

RECURSIVE Replace(_, _, _)
\* str::replace(from, to): every occurrence of `from` in s is replaced, left to
\* right, and the text put in is not searched again; "$AGENT" also occurs at
\* the start of "$AGENT_TRANSPORT"
Replace(s, from, to) ==
    IF s = <<>> THEN <<>>
    ELSE (IF Head(s) = from THEN to
          ELSE IF from = "$AGENT" /\ Head(s) = "$AGENT_TRANSPORT"
               THEN to \o <<"_TRANSPORT">>
          ELSE << Head(s) >>) \o Replace(Tail(s), from, to)

\* agent/mod.rs 252-256: the pretty-printed object of the dependency contents,
\* "" when the task has no dependency
ContextJson(content) == IF content = <<>> THEN <<>> ELSE <<"{">> \o content \o <<"}">>

\* agent/mod.rs 356: the pretty-printed array of the surviving outputs
ResultsDump(outputs) == <<"[">> \o outputs \o <<"]">>

\* plan.rs 699-701: executor.user_prompt as create_executors builds it
ExecutorUserPrompt(instruction) == Replace(ConfiguredUser, "$INSTRUCTION", instruction)

\* agent/mod.rs 358-365: transport_agent_prompt
TransportAgentText(agent) ==
    IF agent = "Transport"
    THEN Replace(Replace(ConfiguredTransportAgent,
                         "$RETRY_COUNT", << ToString(MAX_TOOL_RETRY_COUNT) >>),
                 "$MAXIMUM_RETRY_REACHED", <<>>)
    ELSE <<>>

\* agent/mod.rs 258 and 367-373: self.user_prompt of the agent-consolidation
\* call
AgentUserPrompt(agent, instruction, content, outputs) ==
    Replace(Replace(ExecutorUserPrompt(instruction), "$CONTEXT", ContextJson(content)),
            "$AGENT",
            Replace(Replace(ConfiguredAgent, "$RESULTS", ResultsDump(outputs)),
                    "$AGENT_TRANSPORT", TransportAgentText(agent)))

\* plan.rs 540-549: the user prompt of iteration n of the tool loop
ToolLoopUserPrompt(p, n) ==
    Replace(Replace(p, "$RETRY_COUNT", << ToString(n) >>),
            "$MAXIMUM_RETRY_REACHED",
            IF n = MAX_TOOL_RETRY_COUNT - 1 THEN <<"last">> ELSE <<>>)

\* one Executor: its texts, the prompt of its agent-consolidation call and,
\* for a Transport task, the prompt of iteration n of its tool loop
BuildUserPrompt ==
    /\ Len(prompted) < MaxPrompted
    /\ \E agent \in {"Food", "Transport"}, instruction \in Texts("go"),
          content \in Texts("seen") \cup { <<>> }, outputs \in Texts("out"),
          n \in {0, MAX_TOOL_RETRY_COUNT - 1} :
          LET p == AgentUserPrompt(agent, instruction, content, outputs)
          IN  prompted' = Append(prompted,
                 [agent |-> agent, instruction |-> instruction, content |-> content,
                  outputs |-> outputs, prompt |-> p, iteration |-> n,
                  retry |-> IF agent = "Transport" THEN ToolLoopUserPrompt(p, n) ELSE p])
    /\ UNCHANGED <<planVars, execVars, workerVars, sharedVars, postVars>>
    /\ UNCHANGED <<chunkVars, handlerVars, mapsVars, served>>

PromptSpec == Init /\ [][BuildUserPrompt]_vars

(***************************************************************************)
(* Properties                                                              *)
(***************************************************************************)
\* the worker of task i has left the dependency wait
PastWait(i) ==
    \/ wpc[i] \in {"fanout", "agent_wait", "complete_lock", "complete_edit", "tool_loop",
                   "followup_wait", "done", "noctx", "failed", "panicked"}
    \/ \E m \in Providers : prov[i][m] # "pending" \/ dumps[i][m] > 0

\* C1: a worker that has left the dependency wait (and so every fan-out call and
\* every dump of its task) finds each of its dependencies among the keys of the
\* Context map, and has collected the content of each of them
C1_DepsBeforeFanOut ==
    \A i \in Workers :
        PastWait(i) =>
            /\ tasks[i].dependencies \subseteq ContextKeys
            /\ DOMAIN context[i] = tasks[i].dependencies

C1_Witness ==
    \E i \in Workers :
        /\ tasks[i].dependencies # {}
        /\ wpc[i] = "fanout"
        /\ \E m \in Providers : dumps[i][m] > 0

\* pcs of a worker that waits for its dependencies
DependencyWait == {"sleep", "poll"}

\* pcs of a worker that waits for a provider that never answers
ProviderWait == {"agent_wait", "followup_wait"}

\* C2: once the agent call of a subtask has failed, that subtask has no entry in
\* the Context map, and eventually no worker of the plan is running any more
\* and execute_plan has ended, unless a provider never answers some worker
C2_OthersProceed ==
    /\ [](\A i \in Workers : wpc[i] = "failed" =>
             \A k \in IdUniverse : contexts[k].by # i)
    /\ (\E i \in Workers : wpc[i] = "failed")
          ~> \/ execResult # "running" /\ \A j \in Workers : wpc[j] \notin Running
             \/ \E j \in Workers : wpc[j] \in ProviderWait

\* C3: no key of the Context map is written twice, and the entry of a task that
\* ended with a Context is the one its worker inserted
C3_WriteOnce ==
    /\ \A k \in IdUniverse : writes[k] <= 1
    /\ \A i \in Workers :
          wpc[i] = "done" => contexts[tasks[i].task_id].by = i

\* tasks reachable from the tasks in S along dependencies, in at most n steps
RECURSIVE Reach(_, _, _)
Reach(ts, S, n) ==
    IF n = 0 THEN {}
    ELSE LET succ == { j \in 1..Len(ts) : \E i \in S : ts[j].task_id \in ts[i].dependencies }
         IN  succ \cup Reach(ts, succ, n - 1)

\* task i depends, directly or through other tasks, on itself
OnCycle(ts, i) == i \in Reach(ts, {i}, Len(ts))

HasCycle(ts) == \E i \in 1..Len(ts) : OnCycle(ts, i)

UniqueIds(ts) == \A i, j \in 1..Len(ts) : ts[i].task_id = ts[j].task_id => i = j

C5_WorkersTerminate ==
    (\E i \in Workers : wpc[i] \in DependencyWait)
        ~> (\A i \in Workers : wpc[i] \notin DependencyWait)

\* C6: the tool loop makes at most MAX_TOOL_RETRY_COUNT follow-up provider calls,
\* at most one per counted iteration and one for the answer that ends it; the
\* loop runs only while retry_count is below MAX_TOOL_RETRY_COUNT, and
\* retry_count never decreases
C6_ToolLoopBounded ==
    /\ [](\A i \in Workers :
             /\ toolCalls[i] <= MAX_TOOL_RETRY_COUNT
             /\ toolCalls[i] <= retry_count[i] + 1
             /\ retry_count[i] <= MAX_TOOL_RETRY_COUNT
             /\ wpc[i] = "tool_loop" => retry_count[i] < MAX_TOOL_RETRY_COUNT)
    /\ [][\A i \in DOMAIN retry_count : retry_count'[i] >= retry_count[i]]_vars

C6_Witness ==
    \E i \in Workers :
        /\ toolCalls[i] = MAX_TOOL_RETRY_COUNT
        /\ retry_count[i] = MAX_TOOL_RETRY_COUNT
        /\ wpc[i] = "noctx"

\* some dependency of the plan is the task_id of none of its tasks
Dangling(ts) ==
    \E i \in 1..Len(ts) : \E d \in ts[i].dependencies :
        \A j \in 1..Len(ts) : ts[j].task_id # d

\* C7: the plan orchestrate returned has no dangling dependency, and after a
\* parsed response with a dangling dependency orchestrate has not returned but
\* is about to send its request again
C7_OnlyValidPlans ==
    /\ orchResult = "ok" => ~Dangling(tasks)
    /\ (lastResponse.kind = "plan" /\ Dangling(lastResponse.tasks))
          => (flow = "orchestrate" /\ orchResult = "none")

C7_Witness ==
    /\ plannerCalls > 1
    /\ orchResult = "ok"
    /\ Len(tasks) > 1

\* C8: no task of the plan orchestrate returned lists its own task_id among its
\* dependencies
C8_NoSelfDependency ==
    orchResult = "ok" =>
        \A i \in 1..Len(tasks) : tasks[i].task_id \notin tasks[i].dependencies

\* C9: after a failed planner call orchestrate has returned the error and sends
\* no further request; the greeting edit carries the diagnostic text; no
\* executor is launched, nothing is synthesized and nothing is persisted
C9_PlannerErrorAborts ==
    lastResponse.kind = "error" =>
        /\ orchResult = "err"
        /\ flow # "orchestrate"
        /\ tasks = <<>>
        /\ greeting = IF flow = "greeting" THEN "none" ELSE "diagnostic"
        /\ Workers = {} /\ launched = 0 /\ embed = <<>>
        /\ synthCalls = 0 /\ ~stored /\ ~mapped /\ ~delivered

C9_Witness ==
    /\ lastResponse.kind = "error"
    /\ plannerCalls = 1
    /\ greeting = "diagnostic"
    /\ thread
    /\ flow = "ok"

\* C10: orchestrate ends after a bounded number of planner requests
C10_PlannerTerminates == (flow = "orchestrate") ~> (flow # "orchestrate")

\* the steps of a plan flow, numbered in the order in which plan() runs them;
\* the naming call is made by create_thread before it creates the thread
StepNamingFirst(f) ==
    CASE f = "language" -> 1
      [] f = "orchestrate" -> 2
      [] f = "greeting" -> 3
      [] f = "name_thread" -> 4
      [] f = "create_thread" -> 5
      [] f \in {"exec_start", "post_embed", "launch", "launch_edit"} -> 6
      [] f \in {"synth_lock", "synth_edit", "synthesize"} -> 7
      [] f \in {"insert_plan", "insert_mapping"} -> 8
      [] f = "send_final" -> 9
      [] OTHER -> 10

\* the same steps with thread creation numbered before naming
StepCreationFirst(f) ==
    CASE f = "name_thread" -> 5
      [] f = "create_thread" -> 4
      [] OTHER -> StepNamingFirst(f)

\* every step of the flow is taken in the order Step gives: the flow moves from
\* a step to itself, to the next one, or ends; and what a step produces changes
\* only while the flow is in that step
StepsInOrder(Step(_)) ==
    /\ Step(flow') \in {Step(flow), Step(flow) + 1, 10}
    /\ language' # language => Step(flow) = 1
    /\ <<plannerCalls, lastResponse, orchResult, tasks>>' #
          <<plannerCalls, lastResponse, orchResult, tasks>> => Step(flow) = 2
    /\ greeting' # greeting => Step(flow) = 3
    /\ title' # title => Step(flow) = Step("name_thread")
    /\ thread' # thread => Step(flow) = Step("create_thread")
    /\ <<execVars, workerVars, contexts, writes>>' #
          <<execVars, workerVars, contexts, writes>> => Step(flow) = 6
    /\ embed' # embed => Step(flow) \in {6, 7}
    /\ synthCalls' # synthCalls => Step(flow) = 7
    /\ <<stored, mapped>>' # <<stored, mapped>> => Step(flow) = 8
    /\ delivered' # delivered => Step(flow) = 9

\* C11 as stated: language classification, planning, greeting edit, thread
\* creation, naming, execution, synthesis, persistence and delivery happen in
\* this order, each after the previous one has finished
C11_OrderAsStated == [][StepsInOrder(StepCreationFirst)]_vars

\* C11, amended: the steps happen in the order language classification,
\* planning, greeting edit, naming, thread creation, execution, synthesis,
\* persistence, delivery, each after the previous one has finished
C11_Order == [][StepsInOrder(StepNamingFirst)]_vars

C11_Witness ==
    /\ flow = "ok"
    /\ language # "none" /\ orchResult = "ok" /\ greeting = "greeting_message"
    /\ title # "none" /\ thread
    /\ execResult = "ok" /\ synthCalls = 1 /\ stored /\ mapped /\ delivered

\* C12: for a plan without tasks execute_plan returns (None, []) and plan()
\* ends: the greeting was shown and the thread created, no progress embed is
\* posted, no worker exists, no synthesis call is made, neither the PlanRecord
\* nor the PlanMapping is written and no final message is sent
C12_EmptyPlan ==
    (orchResult # "none" /\ tasks = <<>>) =>
        /\ execResult \in {"running", "empty"}
        /\ execResult = "empty" <=> flow = "ok"
        /\ execResult = "empty" => (greeting # "none" /\ thread)
        /\ embed = <<>> /\ Workers = {} /\ launched = 0
        /\ flow \notin {"post_embed", "launch", "launch_edit", "synth_lock",
                        "synth_edit", "synthesize", "insert_plan",
                        "insert_mapping", "send_final"}
        /\ synthCalls = 0 /\ ~stored /\ ~mapped /\ ~delivered

C12_Witness ==
    /\ orchResult = "ok" /\ tasks = <<>>
    /\ execResult = "empty" /\ flow = "ok"
    /\ greeting = "greeting_message" /\ thread

\* C13: no provider call of the fan-out that ended in an error or in a timeout
\* is among the survivors passed to the agent-consolidation call
C13_FailuresFiltered ==
    \A i \in Workers : \A m \in survivors[i] : prov[i][m] \notin {"err", "timeout"}

\* C14: no worker waits for the response to a provider request that has no
\* timeout and that the provider never answers
C14_NoCallBlocks ==
    \A i \in Workers : wpc[i] \notin {"agent_wait", "followup_wait"}

\* C15: the user prompt of the follow-up request of iteration n of the tool
\* loop carries n at the place of $RETRY_COUNT, and the transport-max-retry
\* prompt at the place of $MAXIMUM_RETRY_REACHED exactly when n is the last
\* iteration
C15_RetryPrompt ==
    \A i \in Workers :
        retry_prompt[i].iteration >= 0 =>
            /\ retry_prompt[i].prompt.retry = ToString(retry_prompt[i].iteration)
            /\ retry_prompt[i].prompt.max = "maximum_try_prompt"
                  <=> retry_prompt[i].iteration = MAX_TOOL_RETRY_COUNT - 1

\* C16: an iteration of the tool loop whose tool call fails is counted, makes
\* no provider call and inserts nothing, and the loop goes on while iterations
\* are left; a worker that used up MAX_TOOL_RETRY_COUNT iterations ends without
\* a Context and has inserted nothing into the Context map
C16_ToolFailureCounted ==
    /\ [][\A i \in DOMAIN tool_failures :
             tool_failures'[i] > tool_failures[i] =>
                /\ retry_count'[i] = retry_count[i] + 1
                /\ toolCalls'[i] = toolCalls[i]
                /\ last_message'[i] = last_message[i]
                /\ contexts' = contexts
                /\ wpc'[i] = IF retry_count'[i] < MAX_TOOL_RETRY_COUNT
                              THEN "tool_loop" ELSE "noctx"]_vars
    /\ [](\A i \in Workers :
             retry_count[i] >= MAX_TOOL_RETRY_COUNT =>
                /\ wpc[i] = "noctx"
                /\ i \notin results
                /\ \A k \in IdUniverse : contexts[k].by # i)

C16_Witness ==
    \E i \in Workers :
        /\ wpc[i] = "noctx"
        /\ retry_count[i] = MAX_TOOL_RETRY_COUNT
        /\ tool_failures[i] > 0 /\ toolCalls[i] > 0
        /\ flow = "ok"

\* the latest follow-up response of task i has a finish_reason other than
\* tool_calls, and content
FinalAnswer(m) == m.finish \notin {"unset", "none", "tool_calls"} /\ m.content

InCriticalSection ==
    { i \in Workers : wpc[i] = "complete_edit" }
        \cup (IF flow \in {"launch_edit", "synth_edit"} THEN {-1} ELSE {})

\* C18: at most one task is between locking the mutex and storing the edited
\* message, and it is the holder of the mutex; every mutation of the embed is
\* made by the holder and appends one line to the description as it stands, so
\* that the description is the initial one followed by the lines of all
\* completed mutations in the order in which they held the mutex
C18_EmbedMutations ==
    /\ [](/\ Cardinality(InCriticalSection) <= 1
           /\ \A h \in InCriticalSection : mutex = h /\ original_desc[h] = embed)
    /\ [][embed' # embed =>
             IF embed = <<>>
             THEN embed' = << Line("header", 0) >>
             ELSE /\ mutex \in InCriticalSection
                  /\ Len(embed') = Len(embed) + 1
                  /\ SubSeq(embed', 1, Len(embed)) = embed
                  /\ mutex > 0 => embed'[Len(embed')] = Line("done", mutex)
                  /\ mutex < 0 => embed'[Len(embed')].kind \in {"exec", "synth"}]_vars

C18_Witness ==
    /\ Len(embed) = 6
    /\ embed[3].kind = "done" /\ embed[4].kind = "exec"
    /\ embed[5].kind = "done" /\ embed[6].kind = "synth"

\* how often the line of this kind for task i stands in the description
Lines(kind, i) == Cardinality({ k \in 1..Len(embed) : embed[k] = Line(kind, i) })

C20_ContextSubstituted ==
    \A i \in Workers :
        PastWait(i) =>
            LET c == user_prompt[i].context
            IN  IF tasks[i].dependencies = {}
                THEN c.text = "" /\ DOMAIN c.object = {}
                ELSE /\ c.text = "json"
                     /\ DOMAIN c.object = tasks[i].dependencies
                     /\ \A d \in tasks[i].dependencies :
                           /\ c.object[d].src \in {"agent", "followup"}
                           /\ tasks[c.object[d].by].task_id = d
                           /\ wpc[c.object[d].by] = "done"
                           /\ writes[d] = 1 => c.object[d] = contexts[d]

C20_Witness ==
    \E i \in Workers :
        /\ tasks[i].dependencies = {"t1"}
        /\ wpc[i] = "done"
        /\ user_prompt[i].context.text = "json"
        /\ user_prompt[i].context.object["t1"].src = "followup"

\* C21: when execute_plan has returned, the dumps it appended to
\* plan_record.dumps hold, for every task, exactly one GenerationDump per
\* fan-out call that returned a response, whether or not the task ended with
\* a Context
C21_DumpsCollected ==
    execResult = "ok" =>
        \A i \in Workers : \A m \in Providers :
            recordDumps[i][m] = IF prov[i][m] \in {"ok", "okFail"} THEN 1 ELSE 0

\* C22: for every Language and every non-empty plan, once the progress embed
\* is posted there is one Executor per task of the plan, so that every task
\* gets its worker: creating the executors never fails
C22_ExecutorsCreated ==
    embed # <<>> => /\ DOMAIN wpc = DOMAIN tasks
                    /\ \A i \in Workers : user_prompt[i] # <<>>

\* C25: once the request of synthesize has failed (a provider error, an
\* undecodable FinalResult, a response without choices) plan() has ended with
\* the error: no final message is sent, insert_record is never called and
\* neither a PlanRecord nor a PlanMapping is persisted
C25_SynthesisFailure ==
    synthesis \in SynthOutcomes \ {"ok"} =>
        /\ flow \in {"err", "panic"}
        /\ ~delivered
        /\ inserts = [plan |-> 0, mapping |-> 0]
        /\ plans = {} /\ mappings = {}

C25_Witness == synthesis = "err" /\ flow = "err" /\ synthCalls = 1

\* C26: insert_record writes the PlanRecord under record.id first and the
\* PlanMapping, under the same document id and with planId = record.id, only
\* after that write succeeded; each write is attempted at most once; when
\* either write fails plan() ends with the error and no final message is sent
C26_InsertOrder ==
    /\ inserts.plan <= 1 /\ inserts.mapping <= 1
    /\ plans \subseteq {DocumentId(RecordId)}
    /\ inserts.mapping = 1 => inserts.plan = 1 /\ plans # {}
    /\ \A m \in mappings : m.document_id \in plans /\ m.plan_id = RecordId
    /\ \/ inserts.plan = 1 /\ plans = {}
       \/ inserts.mapping = 1 /\ mappings = {}
       => flow = "err" /\ ~delivered

C26_Witness ==
    /\ inserts = [plan |-> 1, mapping |-> 1]
    /\ plans # {} /\ mappings = {}
    /\ flow = "err"

\* C28: when the classifier request fails, a timeout reported by the client
\* included, determine_language returns English and plan() goes on to the
\* planner: the failure does not end the plan flow
C28_ClassifierFallback ==
    [][triage = "none" /\ triage' = "provider_error"
          => language' = "English" /\ flow' = "orchestrate"]_vars

C28_Witness == triage = "provider_error" /\ language = "English" /\ orchResult = "ok"

\* the messages a split into full chunks and one shorter last chunk gives for
\* an argument of n code points
Chunks(n) ==
    [k \in 1..((n + ChunkSize - 1) \div ChunkSize) |->
        Str((k - 1) * ChunkSize + 1, IF k * ChunkSize < n THEN k * ChunkSize ELSE n)]

Split == cpc \in {"send", "ok", "err"}

\* C24 as stated: the messages of send_final_result_message are the
\* consecutive chunks of exactly 1000 code points of final_result, followed by
\* one shorter last chunk when the length is not a multiple of 1000
C24_ChunksAsStated == Split => messages = Chunks(length)

\* C24: for an argument that is not empty the messages are the consecutive
\* chunks of exactly 1000 code points followed by one shorter last chunk when
\* the length is not a multiple of 1000, and an empty argument gives one empty
\* message; each message has at most 1000 code points whatever its length in
\* bytes, the messages concatenated are the argument, the thread receives
\* them in order, and all of them when the call returns Ok
C24_Chunks ==
    /\ Split =>
          /\ messages = IF length = 0 THEN <<Str(1, 0)>> ELSE Chunks(length)
          /\ \A k \in DOMAIN messages : Count(messages[k]) <= ChunkSize
          /\ messages[1].lo = 1 /\ messages[Len(messages)].hi = length
          /\ \A k \in 1..(Len(messages) - 1) : messages[k + 1].lo = messages[k].hi + 1
          /\ length = ChunkSize => Len(messages) = 1
          /\ length = ChunkSize + 1 =>
                Len(messages) = 2 /\ Count(messages[1]) = ChunkSize /\ Count(messages[2]) = 1
    /\ posted = SubSeq(messages, 1, Len(posted))
    /\ cpc = "ok" => posted = messages

C24_Witness ==
    /\ cpc = "ok"
    /\ length = 2 * ChunkSize + 1
    /\ Len(posted) = 3
    /\ ByteLen(posted[1]) > ChunkSize
    /\ Count(posted[3]) = 1

\* C23: the plan flows of different command interactions are independent: a
\* spawned pipeline never has to wait for the plan flow of another
\* interaction, whether that one is in progress or blocked forever, so the
\* lock it needs to start is free whenever it stands before it
C23_IndependentPipelines ==
    \A p \in DOMAIN pipelines : pipelines[p].pc = "spawned" => registry = 0

\* the Response the handler owes body b
Owed(b) ==
    CASE b.kind = "command" -> Defer
      [] b.kind = "typed" /\ b.type = 1 -> Pong
      [] OTHER -> BadRequest

\* C27: handle_interaction answers every request with one response: the
\* deferred ACK for a body that decodes as a command interaction, and then
\* the pipeline is spawned and has taken no step when the response is
\* returned, whatever the other pipelines hold; {type:1} for a ping with
\* type = 1; and 400 otherwise, without spawning anything
C27_OneResponse ==
    [][/\ Len(responses') = Len(requests')
       /\ SubSeq(responses', 1, Len(responses)) = responses
       /\ requests' # requests =>
             LET b == requests'[Len(requests')]
             IN  /\ responses'[Len(responses')] = Owed(b)
                 /\ registry' = registry
                 /\ pipelines' = IF b.kind = "command"
                                 THEN Append(pipelines, [request |-> Len(requests'),
                                                         name |-> b.name, pc |-> "spawned"])
                                 ELSE pipelines]_vars

C27_Witness ==
    /\ Len(responses) = 3
    /\ responses[1] = Defer /\ pipelines[1].pc = "blocked"
    /\ responses[2] = Defer /\ pipelines[2].pc = "spawned"
    /\ \E t \in {1, 3} : requests[3].type = t /\ requests[3].kind = "typed"

\* C29: geocoding is memoized within one plan: a place name the maps
\* provider has answered for in this plan is not sent to it again, in
\* whichever tool call or iteration of the tool loop it is looked up, so each
\* name is geocoded at most once per plan
C29_GeocodedOnce ==
    [][\A n \in Places : geocoded'[n] > geocoded[n] => n \notin answered]_vars

\* the opposite of a TransferMethod
Opposite(by) == IF by = "DriveOrTaxi" THEN "PublicTransport" ELSE "DriveOrTaxi"

\* C30: a failed directions request never fails the tool call: each result
\* pushed has the duration "No result" exactly when the primary request of
\* its route failed, the alternative duration None exactly when the
\* alternative request failed and the opposite mode as alternative mode; the
\* results are those of the requested routes in request order, one per route
\* when handle_tool_call returns Ok, and the call returns an error only
\* before any directions request is made
C30_DirectionsFailure ==
    /\ Len(route_results) = Len(directions)
    /\ Len(route_results) <= Len(transfer_plan)
    /\ \A k \in DOMAIN route_results :
          /\ route_results[k].from = transfer_plan[k].from
          /\ route_results[k].to = transfer_plan[k].to
          /\ route_results[k].by = transfer_plan[k].by
          /\ route_results[k].duration = "No result" <=> directions[k].primary = "failed"
          /\ route_results[k].alternative.duration = None
                <=> directions[k].alternative = "failed"
          /\ route_results[k].alternative.by = Opposite(transfer_plan[k].by)
    /\ tool_result = "ok" => Len(route_results) = Len(transfer_plan)
    /\ tool_result \notin {"none", "ok"} => directions = <<>>
    /\ directions # <<>> /\ mpc = "returned" => tool_result = "ok"

C30_Witness ==
    /\ tool_result = "ok"
    /\ Len(route_results) = 2
    /\ route_results[1].duration = "No result"
    /\ route_results[1].alternative.duration = Some("mins")
    /\ route_results[2].duration = ""
    /\ route_results[2].alternative.duration = None
    /\ route_results[2].alternative.by = "PublicTransport"

\* C31: the handler is reached only by requests whose signature verifies
\* over timestamp||body against the application public key; a request whose
\* signature does not verify is answered 401 and one whose signature is
\* missing or cannot be decoded is answered 500, neither reaching the handler
C31_SignatureGate ==
    \A k \in DOMAIN served :
        LET r == served[k].request
            g == r.signature
        IN  /\ served[k].ended = "next" =>
                  g.form = "signature" /\ g.signer = "application"
                  /\ g.over = r.timestamp \o r.body
            /\ r.utf8 /\ g.form = "signature" /\ served[k].ended # "next" =>
                  served[k].ended = "401"
            /\ r.utf8 /\ g.form # "signature" => served[k].ended = "500"

\* C32: a failure inside one worker after its agent call (a failed follow-up
\* call of the tool loop, a follow-up answer without a tool call, a failed
\* edit of the progress embed) stays confined to that task: it never ends
\* the plan task, which goes on to return the Contexts of the other tasks
C32_FailureConfined ==
    (\E i \in Workers : wpc[i] = "panicked") => flow # "panic"

\* every provider call of every task returned a response, every agent answer
\* has content, and no tool call or edit failed
AllSucceeded ==
    \A i \in Workers :
        /\ \A m \in Providers : prov[i][m] \in {"ok", "okFail"}
        /\ choice[i].content
        /\ tool_failures[i] = 0
        /\ toolCalls[i] > 0 => last_message[i].content
        /\ wpc[i] \notin {"failed", "panicked", "cancelled"}

\* C33: for an acyclic plan in which every call succeeds and every agent
\* answer has content, whatever the order of tasks[], execute_plan returns
\* one Context per task, and the Contexts it returns are the entries of the
\* shared Context map
C33_OneContextPerTask ==
    (execResult = "ok" /\ ~HasCycle(tasks) /\ AllSucceeded) =>
        /\ results = Workers
        /\ Cardinality(ContextKeys) = Len(tasks)
        /\ \A i \in results : contexts[tasks[i].task_id].by = i

(***************************************************************************)
(* C34: the synthesis after the workers                                    *)
(***************************************************************************)
\* the plan flow has ended
PlanEnded == flow \in {"ok", "err", "panic"}

\* the progress embed carries the synthesis notice
SynthesisNoticed == Lines("synth", 0) > 0

\* C34 as stated: synthesize has been called in every plan flow that ended
\* after execute_plan returned the progress message of a plan with tasks
C34_SynthesisAsStated == (execResult = "ok" /\ PlanEnded) => synthCalls > 0

\* C34: synthesize is called only after execute_plan returned with every worker
\* of the plan terminated, and it has been called, once, in every plan flow
\* that ended after the synthesis notice was put on the progress embed
C34_Synthesis ==
    /\ (flow = "synthesize" \/ synthCalls > 0) =>
          /\ execResult = "ok"
          /\ tasks # <<>>
          /\ launched = Len(tasks)
          /\ \A i \in Workers : wpc[i] \in Returned
    /\ (execResult = "ok" /\ PlanEnded /\ SynthesisNoticed) => synthCalls = 1

\* synthesize was called with an empty result map
C34_Witness ==
    /\ synthCalls = 1
    /\ tasks # <<>>
    /\ results = {}
    /\ \A i \in Workers : wpc[i] \in {"noctx", "failed"}

(***************************************************************************)
(* C35: the agent-consolidation call after the fan-out                     *)
(***************************************************************************)
\* the positions of a worker whose agent-consolidation request has been sent
AgentCalled ==
    {"agent_wait", "failed", "complete_lock", "complete_edit", "tool_loop",
     "followup_wait", "done", "noctx", "panicked"}

\* C35: the agent-consolidation call of a task has been issued only when every
\* fan-out provider call of the task has finished, and when none of them
\* succeeded the survivor array it was issued with is empty
C35_AgentCallAfterFanOut ==
    \A i \in Workers :
        wpc[i] \in AgentCalled =>
            /\ \A m \in Providers : prov[i][m] # "pending"
            /\ (\A m \in Providers : prov[i][m] \notin {"ok", "okFail"}) =>
                   survivors[i] = {}

(***************************************************************************)
(* C36: the survivors of the fan-out                                       *)
(***************************************************************************)
\* the fan-out calls of task i that returned a response
Succeeded(i) == { m \in Providers : prov[i][m] \in {"ok", "okFail"} }

\* the GenerationDumps pushed for task i
DumpCount(i) == Cardinality({ m \in Providers : dumps[i][m] > 0 })

\* C36: once the agent-consolidation call of a task is issued, every output of
\* a fan-out call that succeeded is in its survivor array, and the survivors
\* are as many as the successful calls and as the GenerationDumps of the task
C36_SurvivorsAreSuccesses ==
    \A i \in Workers :
        wpc[i] \in AgentCalled =>
            /\ Succeeded(i) \subseteq survivors[i]
            /\ Cardinality(survivors[i]) = Cardinality(Succeeded(i))
            /\ Cardinality(survivors[i]) = DumpCount(i)

(***************************************************************************)
(* C37: a classifier response without a decodable language                 *)
(***************************************************************************)
\* C37: when the classifier call returned a response without a tool call or
\* with arguments that do not decode to a Language, the plan flow has ended
\* with the error before the planner: no planner call, the deferred response
\* not edited, no thread, no execution, nothing persisted or delivered
C37_UndecodableLanguage ==
    triage = "undecodable" =>
        /\ flow = "err"
        /\ language = "none"
        /\ plannerCalls = 0
        /\ orchResult = "none"
        /\ greeting = "none"
        /\ title = "none"
        /\ ~thread
        /\ execResult = "running"
        /\ launched = 0
        /\ synthCalls = 0
        /\ inserts.plan = 0 /\ inserts.mapping = 0
        /\ plans = {} /\ mappings = {}
        /\ ~stored /\ ~mapped /\ ~delivered

C37_Witness == triage = "undecodable" /\ flow = "err" /\ plannerCalls = 0

(***************************************************************************)
(* C38: what only a Transport worker has and does                          *)
(***************************************************************************)
\* the tool loop of worker i has been entered
InToolLoop(i) ==
    \/ wpc[i] \in {"tool_loop", "followup_wait"}
    \/ toolCalls[i] > 0 \/ tool_failures[i] > 0 \/ retry_count[i] > 0
    \/ last_message[i] # NoChoice
    \/ retry_prompt[i] # NoPrompt

\* C38: the prompt of the agent-consolidation call carries the transport prompt
\* exactly for a Transport task; only the worker of a Transport task enters
\* the tool loop, whatever the agent answered;
\* the worker of any other task ends with a Context exactly when its one agent
\* answer has content, and that Context is made from this answer
C38_TransportOnly ==
    \A i \in Workers :
        /\ wpc[i] \in AgentCalled =>
              (user_prompt[i].retry # "absent" <=> tasks[i].agent = "Transport")
        /\ InToolLoop(i) => tasks[i].agent = "Transport"
        /\ (tasks[i].agent # "Transport" /\ wpc[i] \in {"done", "noctx"}) =>
              /\ wpc[i] = "done" <=> choice[i].content
              /\ wpc[i] = "done" =>
                    /\ tasks[i].task_id \in ContextKeys
                    /\ contexts[tasks[i].task_id].src = "agent"

\* a Transport worker went through the tool loop while another worker ended
\* with the Context of its agent answer
C38_Witness ==
    \E i, j \in Workers :
        /\ tasks[i].agent = "Transport" /\ toolCalls[i] > 0
        /\ user_prompt[i].retry # "absent"
        /\ tasks[j].agent # "Transport" /\ wpc[j] = "done"
        /\ user_prompt[j].retry = "absent"

(***************************************************************************)
(* C39: substituted text is not substituted again                          *)
(***************************************************************************)
RECURSIVE Fill(_, _)
\* the template with the value of each of its placeholders at its place
Fill(template, values) ==
    IF template = <<>> THEN <<>>
    ELSE (IF Head(template) \in DOMAIN values THEN values[Head(template)]
          ELSE << Head(template) >>) \o Fill(Tail(template), values)

\* the agent-consolidation prompt with the texts of e verbatim at the places of
\* the placeholders of the configured prompts
Verbatim(e) ==
    Fill(ConfiguredUser,
         ("$INSTRUCTION" :> e.instruction) @@ ("$CONTEXT" :> ContextJson(e.content))
         @@ ("$AGENT" :> Fill(ConfiguredAgent,
                 ("$RESULTS" :> ResultsDump(e.outputs))
                 @@ ("$AGENT_TRANSPORT" :> TransportAgentText(e.agent)))))

\* C39: the instruction, the dependency contents and the provider outputs
\* stand verbatim in the agent-consolidation prompt, at the places of
\* $INSTRUCTION, $CONTEXT and $RESULTS, also when they contain the literal
\* text of a placeholder
C39_SubstitutedVerbatim ==
    \A k \in DOMAIN prompted : prompted[k].prompt = Verbatim(prompted[k])

=============================================================================
